---- MODULE Spec2Model ----
(***************************************************************************)
(* Model of the Metacritic tool layer (src/tools/metacritic.py): the score *)
(* parsers, the slug and URL builders, the four fetching tools and the two *)
(* award tools.                                                            *)
(*                                                                         *)
(* Texts whose characters matter (score texts, titles, platform codes) are *)
(* sequences of one-character strings; opaque texts (card titles, dates)   *)
(* are TLA+ strings.  Python's None is the record None, a present value v  *)
(* is Some(v).  A call is one step from idle to done: args holds the       *)
(* arguments of the call and the URL it fetches, response what the GET     *)
(* gave, result what the handler handed to its caller, client the events   *)
(* on the HTTP client of the call.  headers, platform_map and awards_data   *)
(* are the module-level HEADERS, PLATFORM_MAP and GAME_AWARDS_DATA.         *)
(***************************************************************************)
EXTENDS Integers, Sequences, FiniteSets, TLC

VARIABLES pc, op, args, response, result, client,
          headers, platform_map, awards_data

\* the module-level objects, which outlive a call
globals == <<headers, platform_map, awards_data>>

vars == <<pc, op, args, response, result, client, headers, platform_map, awards_data>>

\* ---------------------------------------------------------------- values
None == [some |-> FALSE]

Some(v) == [some |-> TRUE, v |-> v]

NoArgs == [none |-> TRUE]

NoResponse == [kind |-> "none"]

NoResult == [kind |-> "none"]

\* ------------------------------------------------------- module globals
HEADERS ==
    [User_Agent |-> "Mozilla/5.0 (Macintosh; Intel Mac OS X 10_15_7) AppleWebKit/537.36",
     Accept |-> "text/html,application/xhtml+xml,application/xml;q=0.9,*/*;q=0.8",
     Accept_Language |-> "en-US,en;q=0.5"]

PLATFORM_MAP ==
    [k \in {<<"p", "c">>, <<"p", "s", "5">>, <<"p", "s", "4">>, <<"x", "b", "o", "x", "-", "s", "e", "r", "i", "e", "s", "-", "x">>, <<"x", "b", "o", "x", "-", "o", "n", "e">>, <<"s", "w", "i", "t", "c", "h">>} |->
        CASE k = <<"p", "s", "5">> -> <<"p", "l", "a", "y", "s", "t", "a", "t", "i", "o", "n", "-", "5">>
          [] k = <<"p", "s", "4">> -> <<"p", "l", "a", "y", "s", "t", "a", "t", "i", "o", "n", "-", "4">>
          [] OTHER -> k]

\* the awards table: for each year its categories and winners, in the order
\* of the dict literal
GAME_AWARDS_DATA ==
      2025 :> <<
             [cat |-> <<"G", "a", "m", "e", " ", "o", "f", " ", "t", "h", "e", " ", "Y", "e", "a", "r">>,
              winner |-> "Clair Obscur: Expedition 33"],
             [cat |-> <<"B", "e", "s", "t", " ", "G", "a", "m", "e", " ", "D", "i", "r", "e", "c", "t", "i", "o", "n">>,
              winner |-> "Clair Obscur: Expedition 33"],
             [cat |-> <<"B", "e", "s", "t", " ", "N", "a", "r", "r", "a", "t", "i", "v", "e">>,
              winner |-> "Clair Obscur: Expedition 33"],
             [cat |-> <<"B", "e", "s", "t", " ", "A", "r", "t", " ", "D", "i", "r", "e", "c", "t", "i", "o", "n">>,
              winner |-> "Clair Obscur: Expedition 33"],
             [cat |-> <<"B", "e", "s", "t", " ", "S", "c", "o", "r", "e", " ", "a", "n", "d", " ", "M", "u", "s", "i", "c">>,
              winner |-> "Clair Obscur: Expedition 33 (Lorien Testard)"],
             [cat |-> <<"B", "e", "s", "t", " ", "A", "u", "d", "i", "o", " ", "D", "e", "s", "i", "g", "n">>,
              winner |-> "Battlefield 6"],
             [cat |-> <<"B", "e", "s", "t", " ", "P", "e", "r", "f", "o", "r", "m", "a", "n", "c", "e">>,
              winner |-> "Jennifer English as Maelle (Clair Obscur: Expedition 33)"],
             [cat |-> <<"G", "a", "m", "e", "s", " ", "f", "o", "r", " ", "I", "m", "p", "a", "c", "t">>,
              winner |-> "South of Midnight"],
             [cat |-> <<"B", "e", "s", "t", " ", "O", "n", "g", "o", "i", "n", "g", " ", "G", "a", "m", "e">>,
              winner |-> "No Man's Sky"],
             [cat |-> <<"B", "e", "s", "t", " ", "C", "o", "m", "m", "u", "n", "i", "t", "y", " ", "S", "u", "p", "p", "o", "r", "t">>,
              winner |-> "Baldur's Gate 3"],
             [cat |-> <<"B", "e", "s", "t", " ", "I", "n", "d", "i", "e", " ", "G", "a", "m", "e">>,
              winner |-> "Clair Obscur: Expedition 33"],
             [cat |-> <<"B", "e", "s", "t", " ", "D", "e", "b", "u", "t", " ", "I", "n", "d", "i", "e", " ", "G", "a", "m", "e">>,
              winner |-> "Clair Obscur: Expedition 33"],
             [cat |-> <<"B", "e", "s", "t", " ", "M", "o", "b", "i", "l", "e", " ", "G", "a", "m", "e">>,
              winner |-> "Umamusume: Pretty Derby"],
             [cat |-> <<"B", "e", "s", "t", " ", "V", "R", "/", "A", "R", " ", "G", "a", "m", "e">>,
              winner |-> "The Midnight Walk"],
             [cat |-> <<"B", "e", "s", "t", " ", "A", "c", "t", "i", "o", "n", " ", "G", "a", "m", "e">>,
              winner |-> "Hades II"],
             [cat |-> <<"B", "e", "s", "t", " ", "A", "c", "t", "i", "o", "n", "/", "A", "d", "v", "e", "n", "t", "u", "r", "e", " ", "G", "a", "m", "e">>,
              winner |-> "Hollow Knight: Silksong"],
             [cat |-> <<"B", "e", "s", "t", " ", "R", "P", "G">>,
              winner |-> "Clair Obscur: Expedition 33"],
             [cat |-> <<"B", "e", "s", "t", " ", "F", "i", "g", "h", "t", "i", "n", "g", " ", "G", "a", "m", "e">>,
              winner |-> "Fatal Fury: City of the Wolves"],
             [cat |-> <<"B", "e", "s", "t", " ", "F", "a", "m", "i", "l", "y", " ", "G", "a", "m", "e">>,
              winner |-> "Donkey Kong Bananza"],
             [cat |-> <<"B", "e", "s", "t", " ", "S", "i", "m", "/", "S", "t", "r", "a", "t", "e", "g", "y", " ", "G", "a", "m", "e">>,
              winner |-> "Final Fantasy Tactics: The Ivalice Chronicles"],
             [cat |-> <<"B", "e", "s", "t", " ", "S", "p", "o", "r", "t", "s", "/", "R", "a", "c", "i", "n", "g", " ", "G", "a", "m", "e">>,
              winner |-> "Mario Kart World"],
             [cat |-> <<"B", "e", "s", "t", " ", "M", "u", "l", "t", "i", "p", "l", "a", "y", "e", "r", " ", "G", "a", "m", "e">>,
              winner |-> "Arc Raiders"],
             [cat |-> <<"B", "e", "s", "t", " ", "A", "d", "a", "p", "t", "a", "t", "i", "o", "n">>,
              winner |-> "The Last of Us: Season 2"],
             [cat |-> <<"M", "o", "s", "t", " ", "A", "n", "t", "i", "c", "i", "p", "a", "t", "e", "d", " ", "G", "a", "m", "e">>,
              winner |-> "Grand Theft Auto VI"],
             [cat |-> <<"C", "o", "n", "t", "e", "n", "t", " ", "C", "r", "e", "a", "t", "o", "r", " ", "o", "f", " ", "t", "h", "e", " ", "Y", "e", "a", "r">>,
              winner |-> "MoistCr1TiKaL"],
             [cat |-> <<"B", "e", "s", "t", " ", "E", "s", "p", "o", "r", "t", "s", " ", "G", "a", "m", "e">>,
              winner |-> "Counter-Strike 2"],
             [cat |-> <<"B", "e", "s", "t", " ", "E", "s", "p", "o", "r", "t", "s", " ", "A", "t", "h", "l", "e", "t", "e">>,
              winner |-> "Chovy (League of Legends)"],
             [cat |-> <<"B", "e", "s", "t", " ", "E", "s", "p", "o", "r", "t", "s", " ", "T", "e", "a", "m">>,
              winner |-> "Team Vitality"],
             [cat |-> <<"P", "l", "a", "y", "e", "r", "'", "s", " ", "V", "o", "i", "c", "e">>,
              winner |-> "Wuthering Waves"],
             [cat |-> <<"I", "n", "n", "o", "v", "a", "t", "i", "o", "n", " ", "i", "n", " ", "A", "c", "c", "e", "s", "s", "i", "b", "i", "l", "i", "t", "y">>,
              winner |-> "Doom: The Dark Ages"],
             [cat |-> <<"G", "a", "m", "e", " ", "C", "h", "a", "n", "g", "e", "r", " ", "A", "w", "a", "r", "d">>,
              winner |-> "Girls Make Games"] >> @@
      2024 :> <<
             [cat |-> <<"G", "a", "m", "e", " ", "o", "f", " ", "t", "h", "e", " ", "Y", "e", "a", "r">>,
              winner |-> "Astro Bot"],
             [cat |-> <<"B", "e", "s", "t", " ", "G", "a", "m", "e", " ", "D", "i", "r", "e", "c", "t", "i", "o", "n">>,
              winner |-> "Astro Bot"],
             [cat |-> <<"B", "e", "s", "t", " ", "N", "a", "r", "r", "a", "t", "i", "v", "e">>,
              winner |-> "Metaphor: ReFantazio"],
             [cat |-> <<"B", "e", "s", "t", " ", "A", "r", "t", " ", "D", "i", "r", "e", "c", "t", "i", "o", "n">>,
              winner |-> "Metaphor: ReFantazio"],
             [cat |-> <<"B", "e", "s", "t", " ", "S", "c", "o", "r", "e", " ", "a", "n", "d", " ", "M", "u", "s", "i", "c">>,
              winner |-> "Final Fantasy VII Rebirth"],
             [cat |-> <<"B", "e", "s", "t", " ", "A", "u", "d", "i", "o", " ", "D", "e", "s", "i", "g", "n">>,
              winner |-> "Senua's Saga: Hellblade II"],
             [cat |-> <<"B", "e", "s", "t", " ", "P", "e", "r", "f", "o", "r", "m", "a", "n", "c", "e">>,
              winner |-> "Melina Juergens (Senua's Saga: Hellblade II)"],
             [cat |-> <<"G", "a", "m", "e", "s", " ", "f", "o", "r", " ", "I", "m", "p", "a", "c", "t">>,
              winner |-> "Neva"],
             [cat |-> <<"B", "e", "s", "t", " ", "O", "n", "g", "o", "i", "n", "g", " ", "G", "a", "m", "e">>,
              winner |-> "Helldivers 2"],
             [cat |-> <<"B", "e", "s", "t", " ", "I", "n", "d", "i", "e", " ", "G", "a", "m", "e">>,
              winner |-> "Balatro"],
             [cat |-> <<"B", "e", "s", "t", " ", "D", "e", "b", "u", "t", " ", "I", "n", "d", "i", "e", " ", "G", "a", "m", "e">>,
              winner |-> "Balatro"],
             [cat |-> <<"B", "e", "s", "t", " ", "M", "o", "b", "i", "l", "e", " ", "G", "a", "m", "e">>,
              winner |-> "Balatro"],
             [cat |-> <<"B", "e", "s", "t", " ", "V", "R", "/", "A", "R", " ", "G", "a", "m", "e">>,
              winner |-> "Batman: Arkham Shadow"],
             [cat |-> <<"B", "e", "s", "t", " ", "A", "c", "t", "i", "o", "n", " ", "G", "a", "m", "e">>,
              winner |-> "Black Myth: Wukong"],
             [cat |-> <<"B", "e", "s", "t", " ", "A", "c", "t", "i", "o", "n", "/", "A", "d", "v", "e", "n", "t", "u", "r", "e", " ", "G", "a", "m", "e">>,
              winner |-> "Astro Bot"],
             [cat |-> <<"B", "e", "s", "t", " ", "R", "P", "G">>,
              winner |-> "Metaphor: ReFantazio"],
             [cat |-> <<"B", "e", "s", "t", " ", "F", "i", "g", "h", "t", "i", "n", "g", " ", "G", "a", "m", "e">>,
              winner |-> "Tekken 8"],
             [cat |-> <<"B", "e", "s", "t", " ", "F", "a", "m", "i", "l", "y", " ", "G", "a", "m", "e">>,
              winner |-> "Astro Bot"],
             [cat |-> <<"B", "e", "s", "t", " ", "S", "i", "m", "/", "S", "t", "r", "a", "t", "e", "g", "y", " ", "G", "a", "m", "e">>,
              winner |-> "Frostpunk 2"],
             [cat |-> <<"B", "e", "s", "t", " ", "S", "p", "o", "r", "t", "s", "/", "R", "a", "c", "i", "n", "g", " ", "G", "a", "m", "e">>,
              winner |-> "EA Sports FC 25"],
             [cat |-> <<"B", "e", "s", "t", " ", "M", "u", "l", "t", "i", "p", "l", "a", "y", "e", "r", " ", "G", "a", "m", "e">>,
              winner |-> "Helldivers 2"],
             [cat |-> <<"B", "e", "s", "t", " ", "A", "d", "a", "p", "t", "a", "t", "i", "o", "n">>,
              winner |-> "Fallout (TV Series)"],
             [cat |-> <<"M", "o", "s", "t", " ", "A", "n", "t", "i", "c", "i", "p", "a", "t", "e", "d", " ", "G", "a", "m", "e">>,
              winner |-> "Grand Theft Auto VI"],
             [cat |-> <<"C", "o", "n", "t", "e", "n", "t", " ", "C", "r", "e", "a", "t", "o", "r", " ", "o", "f", " ", "t", "h", "e", " ", "Y", "e", "a", "r">>,
              winner |-> "CaseOh"],
             [cat |-> <<"B", "e", "s", "t", " ", "E", "s", "p", "o", "r", "t", "s", " ", "G", "a", "m", "e">>,
              winner |-> "League of Legends"],
             [cat |-> <<"P", "l", "a", "y", "e", "r", "'", "s", " ", "V", "o", "i", "c", "e">>,
              winner |-> "Black Myth: Wukong"],
             [cat |-> <<"I", "n", "n", "o", "v", "a", "t", "i", "o", "n", " ", "i", "n", " ", "A", "c", "c", "e", "s", "s", "i", "b", "i", "l", "i", "t", "y">>,
              winner |-> "Prince of Persia: The Lost Crown"] >> @@
      2023 :> <<
             [cat |-> <<"G", "a", "m", "e", " ", "o", "f", " ", "t", "h", "e", " ", "Y", "e", "a", "r">>,
              winner |-> "Baldur's Gate 3"],
             [cat |-> <<"B", "e", "s", "t", " ", "G", "a", "m", "e", " ", "D", "i", "r", "e", "c", "t", "i", "o", "n">>,
              winner |-> "Alan Wake 2"],
             [cat |-> <<"B", "e", "s", "t", " ", "N", "a", "r", "r", "a", "t", "i", "v", "e">>,
              winner |-> "Alan Wake 2"],
             [cat |-> <<"B", "e", "s", "t", " ", "A", "r", "t", " ", "D", "i", "r", "e", "c", "t", "i", "o", "n">>,
              winner |-> "Alan Wake 2"],
             [cat |-> <<"B", "e", "s", "t", " ", "S", "c", "o", "r", "e", " ", "a", "n", "d", " ", "M", "u", "s", "i", "c">>,
              winner |-> "Final Fantasy XVI"],
             [cat |-> <<"B", "e", "s", "t", " ", "A", "u", "d", "i", "o", " ", "D", "e", "s", "i", "g", "n">>,
              winner |-> "Hi-Fi Rush"],
             [cat |-> <<"B", "e", "s", "t", " ", "P", "e", "r", "f", "o", "r", "m", "a", "n", "c", "e">>,
              winner |-> "Neil Newbon (Baldur's Gate 3)"],
             [cat |-> <<"G", "a", "m", "e", "s", " ", "f", "o", "r", " ", "I", "m", "p", "a", "c", "t">>,
              winner |-> "Tchia"],
             [cat |-> <<"B", "e", "s", "t", " ", "O", "n", "g", "o", "i", "n", "g", " ", "G", "a", "m", "e">>,
              winner |-> "Cyberpunk 2077"],
             [cat |-> <<"B", "e", "s", "t", " ", "I", "n", "d", "i", "e", " ", "G", "a", "m", "e">>,
              winner |-> "Sea of Stars"],
             [cat |-> <<"B", "e", "s", "t", " ", "D", "e", "b", "u", "t", " ", "I", "n", "d", "i", "e", " ", "G", "a", "m", "e">>,
              winner |-> "Cocoon"],
             [cat |-> <<"B", "e", "s", "t", " ", "M", "o", "b", "i", "l", "e", " ", "G", "a", "m", "e">>,
              winner |-> "Honkai: Star Rail"],
             [cat |-> <<"B", "e", "s", "t", " ", "V", "R", "/", "A", "R", " ", "G", "a", "m", "e">>,
              winner |-> "Resident Evil Village VR Mode"],
             [cat |-> <<"B", "e", "s", "t", " ", "A", "c", "t", "i", "o", "n", " ", "G", "a", "m", "e">>,
              winner |-> "Armored Core VI: Fires of Rubicon"],
             [cat |-> <<"B", "e", "s", "t", " ", "A", "c", "t", "i", "o", "n", "/", "A", "d", "v", "e", "n", "t", "u", "r", "e", " ", "G", "a", "m", "e">>,
              winner |-> "The Legend of Zelda: Tears of the Kingdom"],
             [cat |-> <<"B", "e", "s", "t", " ", "R", "P", "G">>,
              winner |-> "Baldur's Gate 3"],
             [cat |-> <<"B", "e", "s", "t", " ", "F", "i", "g", "h", "t", "i", "n", "g", " ", "G", "a", "m", "e">>,
              winner |-> "Street Fighter 6"],
             [cat |-> <<"B", "e", "s", "t", " ", "F", "a", "m", "i", "l", "y", " ", "G", "a", "m", "e">>,
              winner |-> "Super Mario Bros. Wonder"],
             [cat |-> <<"B", "e", "s", "t", " ", "S", "i", "m", "/", "S", "t", "r", "a", "t", "e", "g", "y", " ", "G", "a", "m", "e">>,
              winner |-> "Pikmin 4"],
             [cat |-> <<"B", "e", "s", "t", " ", "S", "p", "o", "r", "t", "s", "/", "R", "a", "c", "i", "n", "g", " ", "G", "a", "m", "e">>,
              winner |-> "Forza Motorsport"],
             [cat |-> <<"B", "e", "s", "t", " ", "M", "u", "l", "t", "i", "p", "l", "a", "y", "e", "r", " ", "G", "a", "m", "e">>,
              winner |-> "Baldur's Gate 3"],
             [cat |-> <<"B", "e", "s", "t", " ", "A", "d", "a", "p", "t", "a", "t", "i", "o", "n">>,
              winner |-> "The Last of Us (TV Series)"],
             [cat |-> <<"M", "o", "s", "t", " ", "A", "n", "t", "i", "c", "i", "p", "a", "t", "e", "d", " ", "G", "a", "m", "e">>,
              winner |-> "Final Fantasy VII Rebirth"],
             [cat |-> <<"C", "o", "n", "t", "e", "n", "t", " ", "C", "r", "e", "a", "t", "o", "r", " ", "o", "f", " ", "t", "h", "e", " ", "Y", "e", "a", "r">>,
              winner |-> "IronMouse"],
             [cat |-> <<"B", "e", "s", "t", " ", "E", "s", "p", "o", "r", "t", "s", " ", "G", "a", "m", "e">>,
              winner |-> "Valorant"] >> @@
      2022 :> <<
             [cat |-> <<"G", "a", "m", "e", " ", "o", "f", " ", "t", "h", "e", " ", "Y", "e", "a", "r">>,
              winner |-> "Elden Ring"],
             [cat |-> <<"B", "e", "s", "t", " ", "G", "a", "m", "e", " ", "D", "i", "r", "e", "c", "t", "i", "o", "n">>,
              winner |-> "Elden Ring"],
             [cat |-> <<"B", "e", "s", "t", " ", "N", "a", "r", "r", "a", "t", "i", "v", "e">>,
              winner |-> "God of War Ragnarök"],
             [cat |-> <<"B", "e", "s", "t", " ", "A", "r", "t", " ", "D", "i", "r", "e", "c", "t", "i", "o", "n">>,
              winner |-> "Elden Ring"],
             [cat |-> <<"B", "e", "s", "t", " ", "S", "c", "o", "r", "e", " ", "a", "n", "d", " ", "M", "u", "s", "i", "c">>,
              winner |-> "God of War Ragnarök"],
             [cat |-> <<"B", "e", "s", "t", " ", "A", "u", "d", "i", "o", " ", "D", "e", "s", "i", "g", "n">>,
              winner |-> "God of War Ragnarök"],
             [cat |-> <<"B", "e", "s", "t", " ", "P", "e", "r", "f", "o", "r", "m", "a", "n", "c", "e">>,
              winner |-> "Christopher Judge (God of War Ragnarök)"],
             [cat |-> <<"G", "a", "m", "e", "s", " ", "f", "o", "r", " ", "I", "m", "p", "a", "c", "t">>,
              winner |-> "As Dusk Falls"],
             [cat |-> <<"B", "e", "s", "t", " ", "O", "n", "g", "o", "i", "n", "g", " ", "G", "a", "m", "e">>,
              winner |-> "Final Fantasy XIV"],
             [cat |-> <<"B", "e", "s", "t", " ", "I", "n", "d", "i", "e", " ", "G", "a", "m", "e">>,
              winner |-> "Stray"],
             [cat |-> <<"B", "e", "s", "t", " ", "D", "e", "b", "u", "t", " ", "I", "n", "d", "i", "e", " ", "G", "a", "m", "e">>,
              winner |-> "Stray"],
             [cat |-> <<"B", "e", "s", "t", " ", "M", "o", "b", "i", "l", "e", " ", "G", "a", "m", "e">>,
              winner |-> "Marvel Snap"],
             [cat |-> <<"B", "e", "s", "t", " ", "V", "R", "/", "A", "R", " ", "G", "a", "m", "e">>,
              winner |-> "Moss: Book II"],
             [cat |-> <<"B", "e", "s", "t", " ", "A", "c", "t", "i", "o", "n", " ", "G", "a", "m", "e">>,
              winner |-> "Bayonetta 3"],
             [cat |-> <<"B", "e", "s", "t", " ", "A", "c", "t", "i", "o", "n", "/", "A", "d", "v", "e", "n", "t", "u", "r", "e", " ", "G", "a", "m", "e">>,
              winner |-> "God of War Ragnarök"],
             [cat |-> <<"B", "e", "s", "t", " ", "R", "P", "G">>,
              winner |-> "Elden Ring"],
             [cat |-> <<"B", "e", "s", "t", " ", "F", "i", "g", "h", "t", "i", "n", "g", " ", "G", "a", "m", "e">>,
              winner |-> "MultiVersus"],
             [cat |-> <<"B", "e", "s", "t", " ", "F", "a", "m", "i", "l", "y", " ", "G", "a", "m", "e">>,
              winner |-> "Kirby and the Forgotten Land"],
             [cat |-> <<"B", "e", "s", "t", " ", "S", "i", "m", "/", "S", "t", "r", "a", "t", "e", "g", "y", " ", "G", "a", "m", "e">>,
              winner |-> "Mario + Rabbids Sparks of Hope"],
             [cat |-> <<"B", "e", "s", "t", " ", "S", "p", "o", "r", "t", "s", "/", "R", "a", "c", "i", "n", "g", " ", "G", "a", "m", "e">>,
              winner |-> "Gran Turismo 7"],
             [cat |-> <<"B", "e", "s", "t", " ", "M", "u", "l", "t", "i", "p", "l", "a", "y", "e", "r", " ", "G", "a", "m", "e">>,
              winner |-> "Splatoon 3"],
             [cat |-> <<"M", "o", "s", "t", " ", "A", "n", "t", "i", "c", "i", "p", "a", "t", "e", "d", " ", "G", "a", "m", "e">>,
              winner |-> "The Legend of Zelda: Tears of the Kingdom"],
             [cat |-> <<"C", "o", "n", "t", "e", "n", "t", " ", "C", "r", "e", "a", "t", "o", "r", " ", "o", "f", " ", "t", "h", "e", " ", "Y", "e", "a", "r">>,
              winner |-> "Ludwig"],
             [cat |-> <<"B", "e", "s", "t", " ", "E", "s", "p", "o", "r", "t", "s", " ", "G", "a", "m", "e">>,
              winner |-> "Valorant"] >> @@
      2021 :> <<
             [cat |-> <<"G", "a", "m", "e", " ", "o", "f", " ", "t", "h", "e", " ", "Y", "e", "a", "r">>,
              winner |-> "It Takes Two"],
             [cat |-> <<"B", "e", "s", "t", " ", "G", "a", "m", "e", " ", "D", "i", "r", "e", "c", "t", "i", "o", "n">>,
              winner |-> "Deathloop"],
             [cat |-> <<"B", "e", "s", "t", " ", "N", "a", "r", "r", "a", "t", "i", "v", "e">>,
              winner |-> "Marvel's Guardians of the Galaxy"],
             [cat |-> <<"B", "e", "s", "t", " ", "A", "r", "t", " ", "D", "i", "r", "e", "c", "t", "i", "o", "n">>,
              winner |-> "Deathloop"],
             [cat |-> <<"B", "e", "s", "t", " ", "S", "c", "o", "r", "e", " ", "a", "n", "d", " ", "M", "u", "s", "i", "c">>,
              winner |-> "NieR Replicant ver.1.22474487139..."],
             [cat |-> <<"B", "e", "s", "t", " ", "A", "u", "d", "i", "o", " ", "D", "e", "s", "i", "g", "n">>,
              winner |-> "Forza Horizon 5"],
             [cat |-> <<"B", "e", "s", "t", " ", "P", "e", "r", "f", "o", "r", "m", "a", "n", "c", "e">>,
              winner |-> "Maggie Robertson (Resident Evil Village)"],
             [cat |-> <<"G", "a", "m", "e", "s", " ", "f", "o", "r", " ", "I", "m", "p", "a", "c", "t">>,
              winner |-> "Life is Strange: True Colors"],
             [cat |-> <<"B", "e", "s", "t", " ", "O", "n", "g", "o", "i", "n", "g", " ", "G", "a", "m", "e">>,
              winner |-> "Final Fantasy XIV"],
             [cat |-> <<"B", "e", "s", "t", " ", "I", "n", "d", "i", "e", " ", "G", "a", "m", "e">>,
              winner |-> "Kena: Bridge of Spirits"],
             [cat |-> <<"B", "e", "s", "t", " ", "D", "e", "b", "u", "t", " ", "I", "n", "d", "i", "e", " ", "G", "a", "m", "e">>,
              winner |-> "Kena: Bridge of Spirits"],
             [cat |-> <<"B", "e", "s", "t", " ", "M", "o", "b", "i", "l", "e", " ", "G", "a", "m", "e">>,
              winner |-> "Genshin Impact"],
             [cat |-> <<"B", "e", "s", "t", " ", "V", "R", "/", "A", "R", " ", "G", "a", "m", "e">>,
              winner |-> "Resident Evil 4 VR"],
             [cat |-> <<"B", "e", "s", "t", " ", "A", "c", "t", "i", "o", "n", " ", "G", "a", "m", "e">>,
              winner |-> "Returnal"],
             [cat |-> <<"B", "e", "s", "t", " ", "A", "c", "t", "i", "o", "n", "/", "A", "d", "v", "e", "n", "t", "u", "r", "e", " ", "G", "a", "m", "e">>,
              winner |-> "Metroid Dread"],
             [cat |-> <<"B", "e", "s", "t", " ", "R", "P", "G">>,
              winner |-> "Tales of Arise"],
             [cat |-> <<"B", "e", "s", "t", " ", "F", "i", "g", "h", "t", "i", "n", "g", " ", "G", "a", "m", "e">>,
              winner |-> "Guilty Gear Strive"],
             [cat |-> <<"B", "e", "s", "t", " ", "F", "a", "m", "i", "l", "y", " ", "G", "a", "m", "e">>,
              winner |-> "It Takes Two"],
             [cat |-> <<"B", "e", "s", "t", " ", "S", "i", "m", "/", "S", "t", "r", "a", "t", "e", "g", "y", " ", "G", "a", "m", "e">>,
              winner |-> "Age of Empires IV"],
             [cat |-> <<"B", "e", "s", "t", " ", "S", "p", "o", "r", "t", "s", "/", "R", "a", "c", "i", "n", "g", " ", "G", "a", "m", "e">>,
              winner |-> "Forza Horizon 5"],
             [cat |-> <<"B", "e", "s", "t", " ", "M", "u", "l", "t", "i", "p", "l", "a", "y", "e", "r", " ", "G", "a", "m", "e">>,
              winner |-> "It Takes Two"],
             [cat |-> <<"M", "o", "s", "t", " ", "A", "n", "t", "i", "c", "i", "p", "a", "t", "e", "d", " ", "G", "a", "m", "e">>,
              winner |-> "Elden Ring"],
             [cat |-> <<"C", "o", "n", "t", "e", "n", "t", " ", "C", "r", "e", "a", "t", "o", "r", " ", "o", "f", " ", "t", "h", "e", " ", "Y", "e", "a", "r">>,
              winner |-> "Dream"],
             [cat |-> <<"B", "e", "s", "t", " ", "E", "s", "p", "o", "r", "t", "s", " ", "G", "a", "m", "e">>,
              winner |-> "League of Legends"] >> @@
      2020 :> <<
             [cat |-> <<"G", "a", "m", "e", " ", "o", "f", " ", "t", "h", "e", " ", "Y", "e", "a", "r">>,
              winner |-> "The Last of Us Part II"],
             [cat |-> <<"B", "e", "s", "t", " ", "G", "a", "m", "e", " ", "D", "i", "r", "e", "c", "t", "i", "o", "n">>,
              winner |-> "The Last of Us Part II"],
             [cat |-> <<"B", "e", "s", "t", " ", "N", "a", "r", "r", "a", "t", "i", "v", "e">>,
              winner |-> "The Last of Us Part II"],
             [cat |-> <<"B", "e", "s", "t", " ", "A", "r", "t", " ", "D", "i", "r", "e", "c", "t", "i", "o", "n">>,
              winner |-> "Ghost of Tsushima"],
             [cat |-> <<"B", "e", "s", "t", " ", "S", "c", "o", "r", "e", " ", "a", "n", "d", " ", "M", "u", "s", "i", "c">>,
              winner |-> "Final Fantasy VII Remake"],
             [cat |-> <<"B", "e", "s", "t", " ", "A", "u", "d", "i", "o", " ", "D", "e", "s", "i", "g", "n">>,
              winner |-> "The Last of Us Part II"],
             [cat |-> <<"B", "e", "s", "t", " ", "P", "e", "r", "f", "o", "r", "m", "a", "n", "c", "e">>,
              winner |-> "Laura Bailey (The Last of Us Part II)"],
             [cat |-> <<"G", "a", "m", "e", "s", " ", "f", "o", "r", " ", "I", "m", "p", "a", "c", "t">>,
              winner |-> "Tell Me Why"],
             [cat |-> <<"B", "e", "s", "t", " ", "O", "n", "g", "o", "i", "n", "g", " ", "G", "a", "m", "e">>,
              winner |-> "No Man's Sky"],
             [cat |-> <<"B", "e", "s", "t", " ", "I", "n", "d", "i", "e", " ", "G", "a", "m", "e">>,
              winner |-> "Hades"],
             [cat |-> <<"B", "e", "s", "t", " ", "M", "o", "b", "i", "l", "e", " ", "G", "a", "m", "e">>,
              winner |-> "Among Us"],
             [cat |-> <<"B", "e", "s", "t", " ", "V", "R", "/", "A", "R", " ", "G", "a", "m", "e">>,
              winner |-> "Half-Life: Alyx"],
             [cat |-> <<"B", "e", "s", "t", " ", "A", "c", "t", "i", "o", "n", " ", "G", "a", "m", "e">>,
              winner |-> "Hades"],
             [cat |-> <<"B", "e", "s", "t", " ", "A", "c", "t", "i", "o", "n", "/", "A", "d", "v", "e", "n", "t", "u", "r", "e", " ", "G", "a", "m", "e">>,
              winner |-> "The Last of Us Part II"],
             [cat |-> <<"B", "e", "s", "t", " ", "R", "P", "G">>,
              winner |-> "Final Fantasy VII Remake"],
             [cat |-> <<"B", "e", "s", "t", " ", "F", "i", "g", "h", "t", "i", "n", "g", " ", "G", "a", "m", "e">>,
              winner |-> "Mortal Kombat 11 Ultimate"],
             [cat |-> <<"B", "e", "s", "t", " ", "F", "a", "m", "i", "l", "y", " ", "G", "a", "m", "e">>,
              winner |-> "Animal Crossing: New Horizons"],
             [cat |-> <<"B", "e", "s", "t", " ", "S", "i", "m", "/", "S", "t", "r", "a", "t", "e", "g", "y", " ", "G", "a", "m", "e">>,
              winner |-> "Microsoft Flight Simulator"],
             [cat |-> <<"B", "e", "s", "t", " ", "S", "p", "o", "r", "t", "s", "/", "R", "a", "c", "i", "n", "g", " ", "G", "a", "m", "e">>,
              winner |-> "Tony Hawk's Pro Skater 1 + 2"],
             [cat |-> <<"B", "e", "s", "t", " ", "M", "u", "l", "t", "i", "p", "l", "a", "y", "e", "r", " ", "G", "a", "m", "e">>,
              winner |-> "Among Us"],
             [cat |-> <<"M", "o", "s", "t", " ", "A", "n", "t", "i", "c", "i", "p", "a", "t", "e", "d", " ", "G", "a", "m", "e">>,
              winner |-> "Elden Ring"],
             [cat |-> <<"C", "o", "n", "t", "e", "n", "t", " ", "C", "r", "e", "a", "t", "o", "r", " ", "o", "f", " ", "t", "h", "e", " ", "Y", "e", "a", "r">>,
              winner |-> "Valkyrae"],
             [cat |-> <<"B", "e", "s", "t", " ", "E", "s", "p", "o", "r", "t", "s", " ", "G", "a", "m", "e">>,
              winner |-> "League of Legends"] >> @@
      2019 :> <<
             [cat |-> <<"G", "a", "m", "e", " ", "o", "f", " ", "t", "h", "e", " ", "Y", "e", "a", "r">>,
              winner |-> "Sekiro: Shadows Die Twice"],
             [cat |-> <<"B", "e", "s", "t", " ", "G", "a", "m", "e", " ", "D", "i", "r", "e", "c", "t", "i", "o", "n">>,
              winner |-> "Death Stranding"],
             [cat |-> <<"B", "e", "s", "t", " ", "N", "a", "r", "r", "a", "t", "i", "v", "e">>,
              winner |-> "Disco Elysium"],
             [cat |-> <<"B", "e", "s", "t", " ", "A", "r", "t", " ", "D", "i", "r", "e", "c", "t", "i", "o", "n">>,
              winner |-> "Control"],
             [cat |-> <<"B", "e", "s", "t", " ", "S", "c", "o", "r", "e", " ", "a", "n", "d", " ", "M", "u", "s", "i", "c">>,
              winner |-> "Death Stranding"],
             [cat |-> <<"B", "e", "s", "t", " ", "A", "u", "d", "i", "o", " ", "D", "e", "s", "i", "g", "n">>,
              winner |-> "Call of Duty: Modern Warfare"],
             [cat |-> <<"B", "e", "s", "t", " ", "P", "e", "r", "f", "o", "r", "m", "a", "n", "c", "e">>,
              winner |-> "Mads Mikkelsen (Death Stranding)"],
             [cat |-> <<"G", "a", "m", "e", "s", " ", "f", "o", "r", " ", "I", "m", "p", "a", "c", "t">>,
              winner |-> "Gris"],
             [cat |-> <<"B", "e", "s", "t", " ", "O", "n", "g", "o", "i", "n", "g", " ", "G", "a", "m", "e">>,
              winner |-> "Fortnite"],
             [cat |-> <<"B", "e", "s", "t", " ", "I", "n", "d", "i", "e", " ", "G", "a", "m", "e">>,
              winner |-> "Disco Elysium"],
             [cat |-> <<"B", "e", "s", "t", " ", "M", "o", "b", "i", "l", "e", " ", "G", "a", "m", "e">>,
              winner |-> "Call of Duty: Mobile"],
             [cat |-> <<"B", "e", "s", "t", " ", "V", "R", "/", "A", "R", " ", "G", "a", "m", "e">>,
              winner |-> "Beat Saber"],
             [cat |-> <<"B", "e", "s", "t", " ", "A", "c", "t", "i", "o", "n", " ", "G", "a", "m", "e">>,
              winner |-> "Devil May Cry 5"],
             [cat |-> <<"B", "e", "s", "t", " ", "A", "c", "t", "i", "o", "n", "/", "A", "d", "v", "e", "n", "t", "u", "r", "e", " ", "G", "a", "m", "e">>,
              winner |-> "Sekiro: Shadows Die Twice"],
             [cat |-> <<"B", "e", "s", "t", " ", "R", "P", "G">>,
              winner |-> "Disco Elysium"],
             [cat |-> <<"B", "e", "s", "t", " ", "F", "i", "g", "h", "t", "i", "n", "g", " ", "G", "a", "m", "e">>,
              winner |-> "Super Smash Bros. Ultimate"],
             [cat |-> <<"B", "e", "s", "t", " ", "F", "a", "m", "i", "l", "y", " ", "G", "a", "m", "e">>,
              winner |-> "Luigi's Mansion 3"],
             [cat |-> <<"B", "e", "s", "t", " ", "S", "i", "m", "/", "S", "t", "r", "a", "t", "e", "g", "y", " ", "G", "a", "m", "e">>,
              winner |-> "Fire Emblem: Three Houses"],
             [cat |-> <<"B", "e", "s", "t", " ", "S", "p", "o", "r", "t", "s", "/", "R", "a", "c", "i", "n", "g", " ", "G", "a", "m", "e">>,
              winner |-> "Crash Team Racing Nitro-Fueled"],
             [cat |-> <<"B", "e", "s", "t", " ", "M", "u", "l", "t", "i", "p", "l", "a", "y", "e", "r", " ", "G", "a", "m", "e">>,
              winner |-> "Apex Legends"],
             [cat |-> <<"M", "o", "s", "t", " ", "A", "n", "t", "i", "c", "i", "p", "a", "t", "e", "d", " ", "G", "a", "m", "e">>,
              winner |-> "The Last of Us Part II"],
             [cat |-> <<"C", "o", "n", "t", "e", "n", "t", " ", "C", "r", "e", "a", "t", "o", "r", " ", "o", "f", " ", "t", "h", "e", " ", "Y", "e", "a", "r">>,
              winner |-> "Shroud"],
             [cat |-> <<"B", "e", "s", "t", " ", "E", "s", "p", "o", "r", "t", "s", " ", "G", "a", "m", "e">>,
              winner |-> "League of Legends"] >> @@
      2018 :> <<
             [cat |-> <<"G", "a", "m", "e", " ", "o", "f", " ", "t", "h", "e", " ", "Y", "e", "a", "r">>,
              winner |-> "God of War"],
             [cat |-> <<"B", "e", "s", "t", " ", "G", "a", "m", "e", " ", "D", "i", "r", "e", "c", "t", "i", "o", "n">>,
              winner |-> "God of War"],
             [cat |-> <<"B", "e", "s", "t", " ", "N", "a", "r", "r", "a", "t", "i", "v", "e">>,
              winner |-> "Red Dead Redemption 2"],
             [cat |-> <<"B", "e", "s", "t", " ", "A", "r", "t", " ", "D", "i", "r", "e", "c", "t", "i", "o", "n">>,
              winner |-> "Red Dead Redemption 2"],
             [cat |-> <<"B", "e", "s", "t", " ", "S", "c", "o", "r", "e", " ", "a", "n", "d", " ", "M", "u", "s", "i", "c">>,
              winner |-> "Red Dead Redemption 2"],
             [cat |-> <<"B", "e", "s", "t", " ", "A", "u", "d", "i", "o", " ", "D", "e", "s", "i", "g", "n">>,
              winner |-> "Red Dead Redemption 2"],
             [cat |-> <<"B", "e", "s", "t", " ", "P", "e", "r", "f", "o", "r", "m", "a", "n", "c", "e">>,
              winner |-> "Roger Clark (Red Dead Redemption 2)"],
             [cat |-> <<"G", "a", "m", "e", "s", " ", "f", "o", "r", " ", "I", "m", "p", "a", "c", "t">>,
              winner |-> "Celeste"],
             [cat |-> <<"B", "e", "s", "t", " ", "O", "n", "g", "o", "i", "n", "g", " ", "G", "a", "m", "e">>,
              winner |-> "Fortnite"],
             [cat |-> <<"B", "e", "s", "t", " ", "I", "n", "d", "i", "e", " ", "G", "a", "m", "e">>,
              winner |-> "Celeste"],
             [cat |-> <<"B", "e", "s", "t", " ", "M", "o", "b", "i", "l", "e", " ", "G", "a", "m", "e">>,
              winner |-> "Florence"],
             [cat |-> <<"B", "e", "s", "t", " ", "V", "R", "/", "A", "R", " ", "G", "a", "m", "e">>,
              winner |-> "Astro Bot Rescue Mission"],
             [cat |-> <<"B", "e", "s", "t", " ", "A", "c", "t", "i", "o", "n", " ", "G", "a", "m", "e">>,
              winner |-> "Dead Cells"],
             [cat |-> <<"B", "e", "s", "t", " ", "A", "c", "t", "i", "o", "n", "/", "A", "d", "v", "e", "n", "t", "u", "r", "e", " ", "G", "a", "m", "e">>,
              winner |-> "God of War"],
             [cat |-> <<"B", "e", "s", "t", " ", "R", "P", "G">>,
              winner |-> "Monster Hunter: World"],
             [cat |-> <<"B", "e", "s", "t", " ", "F", "i", "g", "h", "t", "i", "n", "g", " ", "G", "a", "m", "e">>,
              winner |-> "Dragon Ball FighterZ"],
             [cat |-> <<"B", "e", "s", "t", " ", "F", "a", "m", "i", "l", "y", " ", "G", "a", "m", "e">>,
              winner |-> "Overcooked 2"],
             [cat |-> <<"B", "e", "s", "t", " ", "S", "i", "m", "/", "S", "t", "r", "a", "t", "e", "g", "y", " ", "G", "a", "m", "e">>,
              winner |-> "Into the Breach"],
             [cat |-> <<"B", "e", "s", "t", " ", "S", "p", "o", "r", "t", "s", "/", "R", "a", "c", "i", "n", "g", " ", "G", "a", "m", "e">>,
              winner |-> "Forza Horizon 4"],
             [cat |-> <<"B", "e", "s", "t", " ", "M", "u", "l", "t", "i", "p", "l", "a", "y", "e", "r", " ", "G", "a", "m", "e">>,
              winner |-> "Fortnite"],
             [cat |-> <<"M", "o", "s", "t", " ", "A", "n", "t", "i", "c", "i", "p", "a", "t", "e", "d", " ", "G", "a", "m", "e">>,
              winner |-> "The Last of Us Part II"],
             [cat |-> <<"C", "o", "n", "t", "e", "n", "t", " ", "C", "r", "e", "a", "t", "o", "r", " ", "o", "f", " ", "t", "h", "e", " ", "Y", "e", "a", "r">>,
              winner |-> "Ninja"],
             [cat |-> <<"B", "e", "s", "t", " ", "E", "s", "p", "o", "r", "t", "s", " ", "G", "a", "m", "e">>,
              winner |-> "Overwatch"] >>

\* ------------------------------------------------------------ characters
Digits == <<"0", "1", "2", "3", "4", "5", "6", "7", "8", "9">>

UpperCase == <<"A", "B", "C", "D", "E", "F", "G", "H", "I", "J", "K", "L", "M",
               "N", "O", "P", "Q", "R", "S", "T", "U", "V", "W", "X", "Y", "Z">>

LowerCase == <<"a", "b", "c", "d", "e", "f", "g", "h", "i", "j", "k", "l", "m",
               "n", "o", "p", "q", "r", "s", "t", "u", "v", "w", "x", "y", "z">>

Range(s) == {s[i] : i \in DOMAIN s}

IsDigit(c) == c \in Range(Digits)

DigitVal(c) == (CHOOSE i \in DOMAIN Digits : Digits[i] = c) - 1

\* str.lower() on one character
LowerChar(c) ==
    IF c \in Range(UpperCase)
    THEN LowerCase[CHOOSE i \in DOMAIN UpperCase : UpperCase[i] = c]
    ELSE c

\* str.lower()
Lower(s) == [i \in DOMAIN s |-> LowerChar(s[i])]

\* the characters of s that belong to cs, in order
RECURSIVE Keep(_, _)
Keep(s, cs) ==
    IF s = <<>> THEN <<>>
    ELSE (IF Head(s) \in cs THEN <<Head(s)>> ELSE <<>>) \o Keep(Tail(s), cs)

\* str.replace(old, new) for a one-character old and a new text
RECURSIVE Replace(_, _, _)
Replace(s, old, new) ==
    IF s = <<>> THEN <<>>
    ELSE (IF Head(s) = old THEN new ELSE <<Head(s)>>) \o Replace(Tail(s), old, new)

\* str.lstrip / str.rstrip / str.strip for a set of characters
RECURSIVE LStrip(_, _)
LStrip(s, cs) ==
    IF s # <<>> /\ Head(s) \in cs THEN LStrip(Tail(s), cs) ELSE s

RECURSIVE RStrip(_, _)
RStrip(s, cs) ==
    IF s # <<>> /\ s[Len(s)] \in cs THEN RStrip(SubSeq(s, 1, Len(s) - 1), cs) ELSE s

Strip(s, cs) == RStrip(LStrip(s, cs), cs)

\* Tag.get_text(strip=True) of an element whose only text node is s
GetText(s) == Strip(s, {" "})

\* ---------------------------------------------------------- score parsing
\* the value of a text of decimal digits
RECURSIVE DigitsValue(_)
DigitsValue(ds) ==
    IF ds = <<>> THEN 0
    ELSE 10 * DigitsValue(SubSeq(ds, 1, Len(ds) - 1)) + DigitVal(ds[Len(ds)])

ValueError == [exc |-> "ValueError"]

\* int(s) for a text of digits and spaces: the number, or ValueError
IntOf(s) ==
    LET t == Strip(s, {" "})
    IN  IF t # <<>> /\ \A i \in DOMAIN t : IsDigit(t[i])
        THEN [exc |-> "none", v |-> DigitsValue(t)]
        ELSE ValueError

Sentinels == {<<"t", "b", "d">>, <<"n", "/", "a">>, <<>>}

\* re.sub(r"[^\d]", "", score_text)
StripNonDigits(s) == Keep(s, Range(Digits))

\* the except clause dropped: the ValueError of int() leaves the parser
_parse_score_uncaught(score_text) ==
    IF score_text = <<>> \/ Lower(score_text) \in Sentinels
    THEN None
    ELSE LET r == IntOf(StripNonDigits(score_text))
         IN  IF r.exc = "none" THEN Some(r.v) ELSE [some |-> FALSE, raised |-> r.exc]

_parse_score(score_text) ==
    IF score_text = <<>> \/ Lower(score_text) \in Sentinels
    THEN None
    ELSE LET r == IntOf(StripNonDigits(score_text))
         IN  IF r.exc = "none" THEN Some(r.v) ELSE None

\* float(s) for a text without exponent and without digit-group underscores:
\* a decimal number num / 10^scale, nan, inf, or ValueError
FloatOf(s) ==
    LET t    == Strip(s, {" "})
        sgn  == t # <<>> /\ Head(t) \in {"+", "-"}
        body == IF sgn THEN Tail(t) ELSE t
        neg  == sgn /\ Head(t) = "-"
        dots == {i \in DOMAIN body : body[i] = "."}
        ds   == Keep(body, Range(Digits))
    IN  IF Lower(body) = <<"n", "a", "n">>
        THEN [exc |-> "none", v |-> [kind |-> "nan"]]
        ELSE IF Lower(body) \in {<<"i", "n", "f">>, <<"i", "n", "f", "i", "n", "i", "t", "y">>}
        THEN [exc |-> "none", v |-> [kind |-> "inf", neg |-> neg]]
        ELSE IF /\ ds # <<>>
                /\ Cardinality(dots) <= 1
                /\ \A i \in DOMAIN body : IsDigit(body[i]) \/ body[i] = "."
        THEN [exc |-> "none",
              v |-> [kind  |-> "float",
                     neg   |-> neg,
                     num   |-> DigitsValue(ds),
                     scale |-> IF dots = {} THEN 0
                               ELSE Len(body) - (CHOOSE i \in dots : TRUE)]]
        ELSE ValueError

_parse_user_score(score_text) ==
    IF score_text = <<>> \/ Lower(score_text) \in Sentinels
    THEN None
    ELSE LET r == FloatOf(score_text)
         IN  IF r.exc = "none" THEN Some(r.v) ELSE None

\* bool(x) of an Optional[int]: None and 0 are false
TruthyInt(x) == x.some /\ x.v # 0

\* bool(x) of an Optional[float]: None, 0.0 and -0.0 are false
TruthyFloat(x) == x.some /\ ~(x.v.kind = "float" /\ x.v.num = 0)

\* ------------------------------------------------------ score-text inputs
MaxTextLen == 3

ScoreChars == {"0", "3", "9", ".", " ", "/", "t", "T"}

\* all texts over cs of length at most n
TextsUpTo(cs, n) == UNION {[1..k -> cs] : k \in 0..n}

SampleScoreTexts ==
    { <<"9", "3", " ", "/", " ", "1", "0", "0">>,
      <<"t", "b", "d">>, <<"T", "B", "D">>, <<"T", "b", "d">>,
      <<"n", "/", "a">>, <<"N", "/", "A">>, <<"N", "/", "a">>,
      <<"8", ".", "5">>, <<"1", "0", "0">>, <<"n", "a", "n">>,
      <<"t", "b", "d", " ">> }

ScoreTexts == TextsUpTo(ScoreChars, MaxTextLen) \cup SampleScoreTexts

\* ------------------------------------------ specification of the parsers
InitScore ==
    /\ pc = "idle"
    /\ op = "none"
    /\ \E t \in ScoreTexts : args = [score_text |-> t]
    /\ response = NoResponse
    /\ result = NoResult
    /\ client = <<>>
    /\ headers = HEADERS
    /\ platform_map = PLATFORM_MAP
    /\ awards_data = GAME_AWARDS_DATA

parse_critic_score ==
    /\ pc = "idle"
    /\ "score_text" \in DOMAIN args
    /\ pc' = "done"
    /\ op' = "_parse_score"
    /\ result' = _parse_score(args.score_text)
    /\ UNCHANGED <<args, response, client, globals>>

parse_user_score ==
    /\ pc = "idle"
    /\ "score_text" \in DOMAIN args
    /\ pc' = "done"
    /\ op' = "_parse_user_score"
    /\ result' = _parse_user_score(args.score_text)
    /\ UNCHANGED <<args, response, client, globals>>

NextScore == parse_critic_score \/ parse_user_score

SpecScore == InitScore /\ [][NextScore]_vars

\* ------------------------------------------------------- slug derivation
SlugChars == Range(LowerCase) \cup Range(Digits) \cup {"-"}

\* re.sub(r"-+", "-", s)
RECURSIVE CollapseHyphens(_)
CollapseHyphens(s) ==
    IF s = <<>> THEN <<>>
    ELSE IF Head(s) = "-" /\ Len(s) > 1 /\ s[2] = "-" THEN CollapseHyphens(Tail(s))
    ELSE <<Head(s)>> \o CollapseHyphens(Tail(s))

\* the trailing .strip("-") forgotten
Slug_nostrip(game_title) ==
    LET s1 == Replace(Replace(Replace(Lower(game_title), " ", <<"-">>), ":", <<>>), "'", <<>>)
        s2 == Keep(s1, SlugChars)
    IN  CollapseHyphens(s2)

\* the slug of get_game_details
Slug(game_title) ==
    LET s1 == Replace(Replace(Replace(Lower(game_title), " ", <<"-">>), ":", <<>>), "'", <<>>)
        s2 == Keep(s1, SlugChars)
    IN  Strip(CollapseHyphens(s2), {"-"})

MaxTitleLen == 4

TitleChars == {"a", "W", "3", " ", "-", ":", "'", "!"}

SampleTitles ==
    { <<"t", "h", "e", "-", "w", "i", "t", "c", "h", "e", "r", "-", "3">>,
      <<"T", "h", "e", " ", "W", "i", "t", "c", "h", "e", "r", " ", "3", ":", " ", "W", "i", "l", "d">> }

SlugTitles == TextsUpTo(TitleChars, MaxTitleLen) \cup SampleTitles

InitSlug ==
    /\ pc = "idle"
    /\ op = "none"
    /\ \E t \in SlugTitles : args = [game_title |-> t]
    /\ response = NoResponse
    /\ result = NoResult
    /\ client = <<>>
    /\ headers = HEADERS
    /\ platform_map = PLATFORM_MAP
    /\ awards_data = GAME_AWARDS_DATA

\* the slug of the caller's title
derive_slug ==
    /\ pc = "idle"
    /\ "game_title" \in DOMAIN args
    /\ pc' = "done"
    /\ op' = "slug"
    /\ result' = Slug(args.game_title)
    /\ UNCHANGED <<args, response, client, globals>>

\* the derived slug passed back in as a title
derive_slug_again ==
    /\ pc = "done"
    /\ op = "slug"
    /\ pc' = "done"
    /\ op' = "slug_again"
    /\ args' = [game_title |-> result]
    /\ result' = Slug(result)
    /\ UNCHANGED <<response, client, globals>>

NextSlug == derive_slug \/ derive_slug_again

SpecSlug == InitSlug /\ [][NextSlug]_vars

\* =============================================================== façade
\* ------------------------------------------------------------ platforms
\* dict.get(key, default): the value, and the dict it leaves behind
DictGet(d, key, default) == IF key \in DOMAIN d THEN d[key] ELSE default

\* dict.setdefault in place of dict.get: a missing key is inserted
DictAfterSetdefault(d, key, default) ==
    [k \in DOMAIN d \cup {key} |-> IF k \in DOMAIN d THEN d[k] ELSE default]

DictAfterGet(d, key, default) == d

\* the key looked up as written: platform.lower() forgotten in the lookup
PlatformSlug_casesensitive(platform) == DictGet(platform_map, platform, Lower(platform))

\* PLATFORM_MAP.get(platform.lower(), platform.lower())
PlatformSlug(platform) == DictGet(platform_map, Lower(platform), Lower(platform))

\* the with-block of a fetching tool: the client is opened, one GET is sent,
\* and the block is left (normally, or by the exception of the GET or of
\* raise_for_status), which closes the client
ClientEvents_leak(resp) ==
    IF resp.kind \in {"transport", "timeout", "status"}
    THEN <<"open", "get">>
    ELSE <<"open", "get", "close">>

ClientEvents(resp) == <<"open", "get">> \o <<"close">>

\* --------------------------------------------------------------- fetch
\* what the GET of one call can give: a transport failure, a timeout, a
\* non-2xx status, a body that cannot be parsed, or a parsed page
FetchFailures ==
    { [kind |-> "transport"], [kind |-> "timeout"], [kind |-> "unparseable"],
      [kind |-> "status", code |-> 404], [kind |-> "status", code |-> 500] }

\* the exception class the with-block and BeautifulSoup raise for a response
ExcOf(resp) ==
    CASE resp.kind = "transport"   -> "ConnectError"
      [] resp.kind = "timeout"     -> "TimeoutException"
      [] resp.kind = "status"      -> "HTTPStatusError"
      [] resp.kind = "unparseable" -> "ParserError"
      [] OTHER                     -> "none"

\* httpx.HTTPError and its subclasses
HTTPErrors == {"ConnectError", "TimeoutException", "HTTPStatusError"}

\* a handler's result when an exception leaves it
Raise(exc) == [kind |-> "raise", exc |-> exc]

\* Python's sequence[:n]
Take(s, n) == SubSeq(s, 1, IF Len(s) < n THEN Len(s) ELSE n)

\* ---------------------------------------------------------- search_games
SearchCap == 10

\* the dict built for one search card that has a title
SearchRecord(card) ==
    [title     |-> card.title.v,
     metascore |-> IF card.score.some THEN _parse_score(GetText(card.score.v)) ELSE None,
     platform  |-> IF card.platform.some THEN card.platform.v ELSE "Unknown"]

\* the loop over the cards: a card without a title element is skipped
RECURSIVE SearchResults(_)
SearchResults(cards) ==
    IF cards = <<>> THEN <<>>
    ELSE (IF Head(cards).title.some THEN <<SearchRecord(Head(cards))>> ELSE <<>>)
         \o SearchResults(Tail(cards))

\* a score as the formatter prints it: the number, or the text TBD
TBD == [tbd |-> TRUE]

Shown(n) == [tbd |-> FALSE, n |-> n]

\* the search URL: the raw query in the path, category 13, page 1
SearchUrl(query) == [kind |-> "search", query |-> query, category |-> 13, page |-> 1]

\* the slice [:10] dropped: every card of the page is scanned
SearchOutput_nocap(query, page) ==
    LET results == SearchResults(page)
    IN  IF results = <<>>
        THEN [kind |-> "text", tag |-> "No games found", query |-> query,
              records |-> results]
        ELSE [kind |-> "text", tag |-> "Search Results", query |-> query,
              records |-> results,
              entries |-> [i \in DOMAIN results |->
                  [n        |-> i,
                   title    |-> results[i].title,
                   platform |-> results[i].platform,
                   score    |-> IF TruthyInt(results[i].metascore)
                                THEN Shown(results[i].metascore.v) ELSE TBD]]]

\* the body of search_games once the page is parsed
SearchOutput(query, page) ==
    LET results == SearchResults(Take(page, SearchCap))
    IN  IF results = <<>>
        THEN [kind |-> "text", tag |-> "No games found", query |-> query,
              records |-> results]
        ELSE [kind |-> "text", tag |-> "Search Results", query |-> query,
              records |-> results,
              entries |-> [i \in DOMAIN results |->
                  [n        |-> i,
                   title    |-> results[i].title,
                   platform |-> results[i].platform,
                   score    |-> IF TruthyInt(results[i].metascore)
                                THEN Shown(results[i].metascore.v) ELSE TBD]]]

\* the last except clause dropped: only httpx.HTTPError is handled
search_games_result_nocatchall(query, platform, resp) ==
    IF resp.kind = "ok" THEN SearchOutput(query, resp.page)
    ELSE IF ExcOf(resp) \in HTTPErrors
    THEN [kind |-> "text", tag |-> "Error searching for games", exc |-> ExcOf(resp)]
    ELSE Raise(ExcOf(resp))

\* what search_games returns for its arguments and the response of its GET
search_games_result(query, platform, resp) ==
    IF resp.kind = "ok" THEN SearchOutput(query, resp.page)
    ELSE IF ExcOf(resp) \in HTTPErrors
    THEN [kind |-> "text", tag |-> "Error searching for games", exc |-> ExcOf(resp)]
    ELSE [kind |-> "text", tag |-> "Unexpected error during search", exc |-> ExcOf(resp)]

\* ------------------------------------------------------ get_game_details
GenreCap == 5

SummaryCap == 500

\* the detail URL: the slug of the title in the path, and nothing else
DetailUrl_withplatform(game_title, platform) ==
    [kind |-> "game", slug |-> Slug(game_title), platform |-> PlatformSlug(platform)]

DetailUrl(game_title, platform) == [kind |-> "game", slug |-> Slug(game_title)]

NoSummary == [text |-> "No summary available", len |-> 20]

\* the marker get_game_details puts before a score
DetailEmoji(metascore) ==
    IF metascore >= 75 THEN "green" ELSE IF metascore >= 50 THEN "yellow" ELSE "red"

\* the slice [:5] dropped: every genre link of the page is listed
DetailRecord_nogenrecap(game_title, platform, page) ==
    [title_text   |-> IF page.title.some THEN page.title.v ELSE game_title,
     metascore    |-> IF page.critic.some THEN _parse_score(GetText(page.critic.v)) ELSE None,
     user_score   |-> IF page.user.some THEN _parse_user_score(GetText(page.user.v)) ELSE None,
     summary      |-> IF page.summary.some THEN page.summary.v ELSE NoSummary,
     release_date |-> IF page.release.some THEN page.release.v ELSE "Unknown",
     genres       |-> page.genres]

\* the fields extracted from a parsed detail page
DetailRecord(game_title, platform, page) ==
    [title_text   |-> IF page.title.some THEN page.title.v ELSE game_title,
     metascore    |-> IF page.critic.some THEN _parse_score(GetText(page.critic.v)) ELSE None,
     user_score   |-> IF page.user.some THEN _parse_user_score(GetText(page.user.v)) ELSE None,
     summary      |-> IF page.summary.some THEN page.summary.v ELSE NoSummary,
     release_date |-> IF page.release.some THEN page.release.v ELSE "Unknown",
     genres       |-> Take(page.genres, GenreCap)]

\* the report of get_game_details for a parsed page
DetailOutput(game_title, platform, page) ==
    LET r == DetailRecord(game_title, platform, page)
    IN  [kind       |-> "text",
         tag        |-> "details",
         record     |-> r,
         title      |-> r.title_text,
         metascore  |-> IF TruthyInt(r.metascore)
                        THEN [tbd |-> FALSE, n |-> r.metascore.v,
                              emoji |-> DetailEmoji(r.metascore.v)]
                        ELSE [tbd |-> TRUE, emoji |-> "white"],
         user_score |-> IF TruthyFloat(r.user_score) THEN Some(r.user_score.v) ELSE None,
         release    |-> r.release_date,
         genres     |-> IF r.genres # <<>> THEN Some(r.genres) ELSE None,
         summary    |-> [text     |-> r.summary.text,
                         len      |-> IF r.summary.len > SummaryCap THEN SummaryCap
                                      ELSE r.summary.len,
                         ellipsis |-> r.summary.len > SummaryCap],
         url        |-> DetailUrl(game_title, platform)]

\* the test for 404 dropped: every status error gives the text with the code
get_game_details_result_no404(game_title, platform, resp) ==
    IF resp.kind = "ok" THEN DetailOutput(game_title, platform, resp.page)
    ELSE IF ExcOf(resp) = "HTTPStatusError"
    THEN [kind |-> "text", tag |-> "Error fetching game details: HTTP", code |-> resp.code]
    ELSE [kind |-> "text", tag |-> "Error getting game details", exc |-> ExcOf(resp)]

\* what get_game_details returns for its arguments and the response of its GET
get_game_details_result(game_title, platform, resp) ==
    IF resp.kind = "ok" THEN DetailOutput(game_title, platform, resp.page)
    ELSE IF ExcOf(resp) = "HTTPStatusError"
    THEN IF resp.code = 404
         THEN [kind |-> "text", tag |-> "not found", game_title |-> game_title,
               suggest |-> "search_games"]
         ELSE [kind |-> "text", tag |-> "Error fetching game details: HTTP", code |-> resp.code]
    ELSE [kind |-> "text", tag |-> "Error getting game details", exc |-> ExcOf(resp)]

\* ---------------------------------------------- get_top_games_by_platform
TopCap == 15

YearMin == "1958"

YearMax == "2025"

\* every time_period other than "all-time" treated as a year
BrowseUrl_anyyear(platform, time_period) ==
    IF time_period = "all-time"
    THEN [kind |-> "browse", platform |-> PlatformSlug(platform),
          releaseYearMin |-> Some(YearMin), releaseYearMax |-> Some(YearMax), page |-> 1]
    ELSE [kind |-> "browse", platform |-> PlatformSlug(platform),
          releaseYearMin |-> Some(time_period), releaseYearMax |-> Some(time_period),
          page |-> 1]

\* the browse URL for a platform and a time period
BrowseUrl(platform, time_period) ==
    IF time_period = "all-time"
    THEN [kind |-> "browse", platform |-> PlatformSlug(platform),
          releaseYearMin |-> Some(YearMin), releaseYearMax |-> Some(YearMax), page |-> 1]
    ELSE IF time_period \in {"2024", "2023", "2022"}
    THEN [kind |-> "browse", platform |-> PlatformSlug(platform),
          releaseYearMin |-> Some(time_period), releaseYearMax |-> Some(time_period),
          page |-> 1]
    ELSE [kind |-> "browse", platform |-> PlatformSlug(platform),
          releaseYearMin |-> None, releaseYearMax |-> None, page |-> 1]

\* the dict built for one browse card that has a title
TopRecord(card) ==
    [title     |-> card.title.v,
     metascore |-> IF card.score.some THEN _parse_score(GetText(card.score.v)) ELSE None,
     release   |-> IF card.date.some THEN card.date.v ELSE "Unknown"]

RECURSIVE TopResults(_)
TopResults(cards) ==
    IF cards = <<>> THEN <<>>
    ELSE (IF Head(cards).title.some THEN <<TopRecord(Head(cards))>> ELSE <<>>)
         \o TopResults(Tail(cards))

\* str.upper() on one character, and str.upper()
UpperChar(c) ==
    IF c \in Range(LowerCase)
    THEN UpperCase[CHOOSE i \in DOMAIN LowerCase : LowerCase[i] = c]
    ELSE c

Upper(s) == [i \in DOMAIN s |-> UpperChar(s[i])]

\* the marker get_top_games_by_platform puts before a score
TopEmoji(score) ==
    IF score >= 90 THEN "green" ELSE IF score >= 75 THEN "yellow" ELSE "white"

\* the printed ranking: position i of results is printed when its score is truthy
RECURSIVE TopEntries(_, _)
TopEntries(results, i) ==
    IF i > Len(results) THEN <<>>
    ELSE (IF TruthyInt(results[i].metascore)
          THEN << [medal   |-> IF i = 1 THEN "gold" ELSE IF i = 2 THEN "silver"
                               ELSE IF i = 3 THEN "bronze" ELSE i,
                   title   |-> results[i].title,
                   score   |-> results[i].metascore.v,
                   emoji   |-> TopEmoji(results[i].metascore.v),
                   release |-> results[i].release] >>
          ELSE <<>>)
         \o TopEntries(results, i + 1)

\* the emptiness test moved from the extracted records to the printed ranking
TopOutput_emptyranking(platform, time_period, page) ==
    LET results == TopResults(Take(page, TopCap))
    IN  IF TopEntries(results, 1) = <<>>
        THEN [kind |-> "text", tag |-> "No top games found", platform |-> platform,
              records |-> results]
        ELSE [kind |-> "text", tag |-> "Top Games",
              platform_display |-> Replace(Upper(platform), "-", <<" ">>),
              period  |-> IF time_period # "all-time" THEN Some(time_period) ELSE None,
              records |-> results,
              entries |-> TopEntries(results, 1)]

\* lines 243-260: the text returned for a parsed page
TopOutput(platform, time_period, page) ==
    LET results == TopResults(Take(page, TopCap))
    IN  IF results = <<>>
        THEN [kind |-> "text", tag |-> "No top games found", platform |-> platform,
              records |-> results]
        ELSE [kind |-> "text", tag |-> "Top Games",
              platform_display |-> Replace(Upper(platform), "-", <<" ">>),
              period  |-> IF time_period # "all-time" THEN Some(time_period) ELSE None,
              records |-> results,
              entries |-> TopEntries(results, 1)]

\* what get_top_games_by_platform returns
get_top_games_by_platform_result(platform, time_period, resp) ==
    IF resp.kind = "ok" THEN TopOutput(platform, time_period, resp.page)
    ELSE [kind |-> "text", tag |-> "Error fetching top games", exc |-> ExcOf(resp)]

\* ---------------------------------------------------- get_recent_releases
RecentCap == 20

RecentShown == 10

\* the new-releases URL: every platform for "all", else the mapped platform
RecentUrl(platform) ==
    [kind |-> "new-releases",
     platform |-> IF Lower(platform) = <<"a", "l", "l">> THEN <<"a", "l", "l">>
                  ELSE PlatformSlug(platform)]

\* the loop over the cards: a card is kept when it has a title and its score
\* is truthy and at least min_score
RECURSIVE RecentResults(_, _, _)
RecentResults(cards, platform, min_score) ==
    IF cards = <<>> THEN <<>>
    ELSE LET card  == Head(cards)
             score == IF card.score.some THEN _parse_score(GetText(card.score.v)) ELSE None
         IN  (IF card.title.some /\ TruthyInt(score) /\ score.v >= min_score
              THEN << [title     |-> card.title.v,
                       metascore |-> score,
                       release   |-> IF card.date.some THEN card.date.v ELSE "Recent",
                       platform  |-> IF card.platform.some THEN card.platform.v
                                     ELSE platform] >>
              ELSE <<>>)
             \o RecentResults(Tail(cards), platform, min_score)

\* the marker get_recent_releases puts before a score
RecentEmoji(metascore) ==
    IF metascore >= 85 THEN "green" ELSE IF metascore >= 75 THEN "yellow" ELSE "white"

RecentOutput(platform, min_score, page) ==
    LET results == RecentResults(Take(page, RecentCap), platform, min_score)
        shown   == Take(results, RecentShown)
    IN  IF results = <<>>
        THEN [kind |-> "text", tag |-> "No recent releases found", min_score |-> min_score,
              records |-> results]
        ELSE [kind |-> "text", tag |-> "Recent Releases", min_score |-> min_score,
              records |-> results,
              entries |-> [i \in DOMAIN shown |->
                  [n        |-> i,
                   title    |-> shown[i].title,
                   score    |-> shown[i].metascore.v,
                   emoji    |-> RecentEmoji(shown[i].metascore.v),
                   release  |-> shown[i].release,
                   platform |-> shown[i].platform]]]

\* what get_recent_releases returns
get_recent_releases_result(platform, min_score, resp) ==
    IF resp.kind = "ok" THEN RecentOutput(platform, min_score, resp.page)
    ELSE [kind |-> "text", tag |-> "Error fetching recent releases", exc |-> ExcOf(resp)]

\* ------------------------------------------------------------ page inputs
MaxLead == 1

\* n copies of x
Rep(x, n) == [i \in 1..n |-> x]

\* the pages given to a handler that scans cap cards: the empty page, and
\* n copies of one card followed by another card, for short runs over all
\* cards S and for runs of cap-1 and cap copies over the cards L
Pages(S, L, caps) ==
    {<<>>}
    \cup {Rep(c, n) \o <<d>> : c \in S, d \in S, n \in 0..MaxLead}
    \cup {Rep(c, n) \o <<d>> : c \in L, d \in L, n \in caps}

TitleElems == {None, Some("A"), Some("B")}

ScoreElems ==
    { None, Some(<<"t", "b", "d">>), Some(<<"0">>), Some(<<"7", "5">>), Some(<<"9", "3", " ", "/", " ", "1", "0", "0">>) }

PlatformElems == {None, Some("PC"), Some("Switch")}

SearchCards == [title : TitleElems, score : ScoreElems, platform : PlatformElems]

SearchPages ==
    Pages(SearchCards, {c \in SearchCards : c.platform = None}, {SearchCap - 1, SearchCap})

Queries == {"zelda"}

SearchPlatformArgs == {<<"a", "l", "l">>, <<"p", "c">>, <<"s", "w", "i", "t", "c", "h">>}

OkResponses(pages) == {[kind |-> "ok", page |-> p] : p \in pages}

\* ------------------------------------------------------------- the calls
Init ==
    /\ pc = "idle"
    /\ op = "none"
    /\ args = NoArgs
    /\ response = NoResponse
    /\ result = NoResult
    /\ client = <<>>
    /\ headers = HEADERS
    /\ platform_map = PLATFORM_MAP
    /\ awards_data = GAME_AWARDS_DATA

search_games ==
    /\ pc = "idle"
    /\ args = NoArgs
    /\ \E query \in Queries, platform \in SearchPlatformArgs,
          resp \in FetchFailures \cup OkResponses(SearchPages) :
          /\ op' = "search_games"
          /\ args' = [query |-> query, platform |-> platform,
                      url |-> SearchUrl(query)]
          /\ response' = resp
          /\ result' = search_games_result(query, platform, resp)
          /\ client' = ClientEvents(resp)
          /\ UNCHANGED globals
    /\ pc' = "done"

\* the caller takes the returned text; the locals of the call are gone
tool_return ==
    /\ pc = "done"
    /\ op \in {"search_games", "get_game_details", "get_top_games_by_platform",
               "get_recent_releases", "get_game_awards", "get_game_of_the_year_history"}
    /\ pc' = "idle"
    /\ op' = "none"
    /\ args' = NoArgs
    /\ response' = NoResponse
    /\ result' = NoResult
    /\ client' = <<>>
    /\ UNCHANGED globals

NextSearch == search_games \/ tool_return

SpecSearch == Init /\ [][NextSearch]_vars

\* --------------------------------------------------------- detail inputs
UserElems == {None, Some(<<"t", "b", "d">>), Some(<<"0", ".", "0">>), Some(<<"8", ".", "5">>)}

SummaryElems ==
    { None, Some([text |-> "S", len |-> SummaryCap]),
      Some([text |-> "S", len |-> SummaryCap + 1]) }

GenreNames == <<"g1", "g2", "g3", "g4", "g5", "g6">>

GenreLists == {Take(GenreNames, n) : n \in {0, 1, GenreCap, GenreCap + 1}}

DetailPages ==
    [title : {None, Some("T")}, critic : ScoreElems, user : UserElems,
     summary : SummaryElems, release : {None, Some("2015")}, genres : GenreLists]

DetailTitles == {<<"T", "h", "e", " ", "W", "i", "t", "c", "h", "e", "r", " ", "3", ":", " ", "W", "i", "l", "d", " ", "H", "u", "n", "t">>, <<"t", "h", "e", "-", "w", "i", "t", "c", "h", "e", "r", "-", "3">>, <<"B", "a", "l", "d", "u", "r", "'", "s", " ", "G", "a", "t", "e", " ", "3">>}

PlatformArgs == {<<"p", "c">>, <<"P", "S", "5">>, <<"d", "r", "e", "a", "m", "c", "a", "s", "t">>}

get_game_details ==
    /\ pc = "idle"
    /\ args = NoArgs
    /\ \E game_title \in DetailTitles, platform \in PlatformArgs,
          resp \in FetchFailures \cup OkResponses(DetailPages) :
          /\ op' = "get_game_details"
          /\ args' = [game_title |-> game_title, platform |-> platform,
                      url |-> DetailUrl(game_title, platform)]
          /\ response' = resp
          /\ result' = get_game_details_result(game_title, platform, resp)
          /\ client' = ClientEvents(resp)
          /\ platform_map' = DictAfterGet(platform_map, Lower(platform), Lower(platform))
          /\ UNCHANGED <<headers, awards_data>>
    /\ pc' = "done"

NextDetails == get_game_details \/ tool_return

SpecDetails == Init /\ [][NextDetails]_vars

\* --------------------------------------------------------- browse inputs
DateElems == {None, Some("2024")}

TopCards == [title : TitleElems, score : ScoreElems, date : DateElems]

TopPages == Pages(TopCards, {c \in TopCards : c.date = None}, {TopCap - 1, TopCap})

TimePeriods == {"all-time", "2024", "2023", "2022", "2021", "90-days"}

get_top_games_by_platform ==
    /\ pc = "idle"
    /\ args = NoArgs
    /\ \E platform \in PlatformArgs, time_period \in TimePeriods,
          resp \in FetchFailures \cup OkResponses(TopPages) :
          /\ op' = "get_top_games_by_platform"
          /\ args' = [platform |-> platform, time_period |-> time_period,
                      url |-> BrowseUrl(platform, time_period)]
          /\ response' = resp
          /\ result' = get_top_games_by_platform_result(platform, time_period, resp)
          /\ client' = ClientEvents(resp)
          /\ platform_map' = DictAfterGet(platform_map, Lower(platform), Lower(platform))
          /\ UNCHANGED <<headers, awards_data>>
    /\ pc' = "done"

NextTop == get_top_games_by_platform \/ tool_return

SpecTop == Init /\ [][NextTop]_vars

RecentCards ==
    [title : TitleElems, score : ScoreElems, date : DateElems,
     platform : {None, Some("PC")}]

RecentPages ==
    Pages(RecentCards, {c \in RecentCards : c.date = None /\ c.platform = None},
          {RecentShown - 1, RecentShown, RecentCap - 1, RecentCap})

RecentPlatformArgs == {<<"a", "l", "l">>, <<"P", "S", "5">>}

MinScores == {0, 75, 80}

get_recent_releases ==
    /\ pc = "idle"
    /\ args = NoArgs
    /\ \E platform \in RecentPlatformArgs, min_score \in MinScores,
          resp \in FetchFailures \cup OkResponses(RecentPages) :
          /\ op' = "get_recent_releases"
          /\ args' = [platform |-> platform, min_score |-> min_score,
                      url |-> RecentUrl(platform)]
          /\ response' = resp
          /\ result' = get_recent_releases_result(platform, min_score, resp)
          /\ client' = ClientEvents(resp)
          /\ platform_map' = IF Lower(platform) = <<"a", "l", "l">> THEN platform_map
                             ELSE DictAfterGet(platform_map, Lower(platform), Lower(platform))
          /\ UNCHANGED <<headers, awards_data>>
    /\ pc' = "done"

NextRecent == get_recent_releases \/ tool_return

SpecRecent == Init /\ [][NextRecent]_vars

\* --------------------------------------------------------- get_game_awards
\* a in b for two texts: a occurs in b as a contiguous run
StrIn(a, b) == \E i \in 0..(Len(b) - Len(a)) : SubSeq(b, i + 1, i + Len(a)) = a

\* sorted(keys, reverse=True)
RECURSIVE SortedDesc(_)
SortedDesc(S) ==
    IF S = {} THEN <<>>
    ELSE LET m == CHOOSE x \in S : \A y \in S : y <= x
         IN  <<m>> \o SortedDesc(S \ {m})

\* the category names of a year's dict, in its order
CategoryNames(awards) == [i \in DOMAIN awards |-> awards[i].cat]

\* the positions of a year's dict whose name contains the text or is
\* contained in it, both lower-cased
Matches(awards, category) ==
    {i \in DOMAIN awards : \/ StrIn(Lower(category), Lower(awards[i].cat))
                           \/ StrIn(Lower(awards[i].cat), Lower(category))}

\* the loop left running to its end: the last matching category wins
get_game_awards_result_lastmatch(year, category) ==
    IF year \notin DOMAIN awards_data
    THEN [kind |-> "text", tag |-> "Data not available", year |-> year,
          available_years |-> SortedDesc(DOMAIN awards_data)]
    ELSE LET awards == awards_data[year]
             hits   == Matches(awards, category)
         IN  IF Lower(category) = <<"a", "l", "l">>
             THEN [kind |-> "text", tag |-> "All Winners", year |-> year, lines |-> awards]
             ELSE IF hits # {}
             THEN LET i == CHOOSE j \in hits : \A k \in hits : k <= j
                  IN  [kind |-> "text", tag |-> "winner", year |-> year,
                       cat |-> awards[i].cat, winner |-> awards[i].winner]
             ELSE [kind |-> "text", tag |-> "Category not found", year |-> year,
                   category |-> category,
                   available_categories |-> CategoryNames(awards)]

\* the name of the dict compared as written: cat.lower() forgotten
get_game_awards_result_casesensitive(year, category) ==
    IF year \notin DOMAIN awards_data
    THEN [kind |-> "text", tag |-> "Data not available", year |-> year,
          available_years |-> SortedDesc(DOMAIN awards_data)]
    ELSE LET awards == awards_data[year]
             hits   == {i \in DOMAIN awards : \/ StrIn(Lower(category), awards[i].cat)
                                              \/ StrIn(awards[i].cat, Lower(category))}
         IN  IF Lower(category) = <<"a", "l", "l">>
             THEN [kind |-> "text", tag |-> "All Winners", year |-> year, lines |-> awards]
             ELSE IF hits # {}
             THEN LET i == CHOOSE j \in hits : \A k \in hits : j <= k
                  IN  [kind |-> "text", tag |-> "winner", year |-> year,
                       cat |-> awards[i].cat, winner |-> awards[i].winner]
             ELSE [kind |-> "text", tag |-> "Category not found", year |-> year,
                   category |-> category,
                   available_categories |-> CategoryNames(awards)]

\* the year looked up without the membership test: KeyError for an unknown year
get_game_awards_result_nokeycheck(year, category) ==
    IF year \notin DOMAIN awards_data
    THEN Raise("KeyError")
    ELSE LET awards == awards_data[year]
             hits   == Matches(awards, category)
         IN  IF Lower(category) = <<"a", "l", "l">>
             THEN [kind |-> "text", tag |-> "All Winners", year |-> year, lines |-> awards]
             ELSE IF hits # {}
             THEN LET i == CHOOSE j \in hits : \A k \in hits : j <= k
                  IN  [kind |-> "text", tag |-> "winner", year |-> year,
                       cat |-> awards[i].cat, winner |-> awards[i].winner]
             ELSE [kind |-> "text", tag |-> "Category not found", year |-> year,
                   category |-> category,
                   available_categories |-> CategoryNames(awards)]

\* what get_game_awards returns: the years for an unknown year, every winner
\* for "all", the first matching category's winner, or the category names
get_game_awards_result(year, category) ==
    IF year \notin DOMAIN awards_data
    THEN [kind |-> "text", tag |-> "Data not available", year |-> year,
          available_years |-> SortedDesc(DOMAIN awards_data)]
    ELSE LET awards == awards_data[year]
             hits   == Matches(awards, category)
         IN  IF Lower(category) = <<"a", "l", "l">>
             THEN [kind |-> "text", tag |-> "All Winners", year |-> year, lines |-> awards]
             ELSE IF hits # {}
             THEN LET i == CHOOSE j \in hits : \A k \in hits : j <= k
                  IN  [kind |-> "text", tag |-> "winner", year |-> year,
                       cat |-> awards[i].cat, winner |-> awards[i].winner]
             ELSE [kind |-> "text", tag |-> "Category not found", year |-> year,
                   category |-> category,
                   available_categories |-> CategoryNames(awards)]

\* awards.get("Game of the Year", "Unknown")
GotyOf(awards) ==
    LET hits == {i \in DOMAIN awards : awards[i].cat = <<"G", "a", "m", "e", " ", "o", "f", " ", "t", "h", "e", " ", "Y", "e", "a", "r">>}
    IN  IF hits # {} THEN awards[CHOOSE i \in hits : TRUE].winner ELSE "Unknown"

\* what get_game_of_the_year_history returns: a line per year, newest first
get_game_of_the_year_history_result ==
    LET years == SortedDesc(DOMAIN awards_data)
    IN  [kind |-> "text", tag |-> "Game of the Year Winners",
         lines |-> [i \in DOMAIN years |->
                       [year |-> years[i], winner |-> GotyOf(awards_data[years[i]])]]]

\* ----------------------------------------------------------- award inputs
AwardYears == DOMAIN GAME_AWARDS_DATA \cup {1999, 2017, 2026}

\* every category name of the table
AllCategoryNames ==
    UNION {{GAME_AWARDS_DATA[y][i].cat : i \in DOMAIN GAME_AWARDS_DATA[y]} :
              y \in DOMAIN GAME_AWARDS_DATA}

OtherCategoryArgs ==
    { <<"a", "l", "l">>, <<"A", "L", "L">>, <<>>, <<"n", "o", "n", "e", "x", "i", "s", "t", "e", "n", "t", "-", "c", "a", "t", "e", "g", "o", "r", "y">>, <<"r", "p", "g">>, <<"a", "c", "t", "i", "o", "n">>, <<"B", "e", "s", "t">>,
      <<"t", "h", "e", " ", "B", "e", "s", "t", " ", "R", "P", "G", " ", "a", "w", "a", "r", "d">> }

CategoryArgs ==
    OtherCategoryArgs
    \cup AllCategoryNames
    \cup {Lower(c) : c \in AllCategoryNames}
    \cup {Upper(c) : c \in AllCategoryNames}

get_game_awards ==
    /\ pc = "idle"
    /\ args = NoArgs
    /\ \E year \in AwardYears, category \in CategoryArgs :
          /\ op' = "get_game_awards"
          /\ args' = [year |-> year, category |-> category]
          /\ result' = get_game_awards_result(year, category)
    /\ pc' = "done"
    /\ UNCHANGED <<response, client, globals>>

get_game_of_the_year_history ==
    /\ pc = "idle"
    /\ args = NoArgs
    /\ op' = "get_game_of_the_year_history"
    /\ args' = [none |-> FALSE]
    /\ result' = get_game_of_the_year_history_result
    /\ pc' = "done"
    /\ UNCHANGED <<response, client, globals>>

NextAwards == get_game_awards \/ get_game_of_the_year_history \/ tool_return

SpecAwards == Init /\ [][NextAwards]_vars

\* ------------------------------------------- specification of the mapping
MaxCodeLen == 3

CodeChars == {"p", "P", "c", "s", "S", "5"}

\* every spelling of a lower-case text in upper and lower case
RECURSIVE CaseVariants(_)
CaseVariants(s) ==
    IF s = <<>> THEN {<<>>}
    ELSE {<<c>> \o t : c \in {Head(s), UpperChar(Head(s))}, t \in CaseVariants(Tail(s))}

SampleCodes == {<<"d", "r", "e", "a", "m", "c", "a", "s", "t">>, <<"D", "r", "e", "a", "m", "C", "a", "s", "t">>, <<"x", "b", "o", "x">>, <<"p", "s", "5", " ">>}

PlatformCodes ==
    TextsUpTo(CodeChars, MaxCodeLen)
    \cup UNION {CaseVariants(k) : k \in DOMAIN PLATFORM_MAP \ {<<"x", "b", "o", "x", "-", "s", "e", "r", "i", "e", "s", "-", "x">>}}
    \cup {<<"x", "b", "o", "x", "-", "s", "e", "r", "i", "e", "s", "-", "x">>, Upper(<<"x", "b", "o", "x", "-", "s", "e", "r", "i", "e", "s", "-", "x">>), <<"X", "b", "o", "x", "-", "S", "e", "r", "i", "e", "s", "-", "X">>}
    \cup SampleCodes

InitPlatform ==
    /\ pc = "idle"
    /\ op = "none"
    /\ \E c \in PlatformCodes : args = [platform |-> c]
    /\ response = NoResponse
    /\ result = NoResult
    /\ client = <<>>
    /\ headers = HEADERS
    /\ platform_map = PLATFORM_MAP
    /\ awards_data = GAME_AWARDS_DATA

\* the platform segment a URL builder computes for the caller's platform
canonical_platform ==
    /\ pc = "idle"
    /\ "platform" \in DOMAIN args
    /\ pc' = "done"
    /\ op' = "PlatformSlug"
    /\ result' = PlatformSlug(args.platform)
    /\ platform_map' = DictAfterGet(platform_map, Lower(args.platform), Lower(args.platform))
    /\ UNCHANGED <<args, response, client, headers, awards_data>>

NextPlatform == canonical_platform

SpecPlatform == InitPlatform /\ [][NextPlatform]_vars

\* ------------------------------------------------------ all six tools
Next ==
    \/ search_games
    \/ get_game_details
    \/ get_top_games_by_platform
    \/ get_recent_releases
    \/ get_game_awards
    \/ get_game_of_the_year_history
    \/ tool_return

Spec == Init /\ [][Next]_vars

\* ================================================================ claims

\* C4: parse_critic_score of "93 / 100" is 93 (the claim as stated; the code
\* concatenates every digit of the text and returns 93100).
C4_NoisyScoreIs93 ==
    (pc = "done" /\ op = "_parse_score"
        /\ args.score_text = <<"9", "3", " ", "/", " ", "1", "0", "0">>)
    => result = Some(93)

\* C6: both parsers return a number or unknown and never raise; the empty
\* text, 'tbd' and 'n/a' in any letter case give unknown from both, and the
\* critic parser gives unknown when the text holds no digit.
C6_ParsersTotal ==
    (pc = "done" /\ op \in {"_parse_score", "_parse_user_score"}) =>
        /\ \/ result = None
           \/ /\ result.some
              /\ IF op = "_parse_score" THEN result.v \in Nat
                 ELSE result.v.kind \in {"float", "nan", "inf"}
        /\ (Lower(args.score_text) \in {<<>>, <<"t", "b", "d">>, <<"n", "/", "a">>}
                => result = None)
        /\ (op = "_parse_score" /\ StripNonDigits(args.score_text) = <<>>
                => result = None)

\* a text that is no placeholder and has no digit was parsed to unknown
C6_Witness ==
    /\ pc = "done"
    /\ op = "_parse_score"
    /\ args.score_text = <<"/", "t">>
    /\ result = None

\* C8: the slug of a derived slug is that slug, and a derived slug holds only
\* lower-case letters, digits and single hyphens, with no hyphen at an end.
C8_SlugIdempotentAndClean ==
    /\ (pc = "done" /\ op = "slug_again") => result = args.game_title
    /\ (pc = "done" /\ op \in {"slug", "slug_again"}) =>
          /\ \A i \in DOMAIN result : result[i] \in SlugChars
          /\ \A i \in 1..(Len(result) - 1) : ~(result[i] = "-" /\ result[i + 1] = "-")
          /\ result # <<>> => (result[1] # "-" /\ result[Len(result)] # "-")

\* a derived slug with an inner hyphen was derived again from itself
C8_Witness ==
    /\ pc = "done"
    /\ op = "slug_again"
    /\ args.game_title = <<"w", "-", "3">>
    /\ result = <<"w", "-", "3">>

FetchingOps ==
    {"search_games", "get_game_details", "get_top_games_by_platform", "get_recent_releases"}

\* C1: each of the four fetching operations returns a text for every outcome
\* of its fetch (transport failure, timeout, non-2xx status, unparseable
\* document, document with none of the expected elements) and never raises.
C1_AlwaysText ==
    (pc = "done" /\ op \in FetchingOps) =>
        /\ result.kind = "text"
        /\ response.kind # "ok" => "exc" \in DOMAIN result \/ "code" \in DOMAIN result
                                   \/ result.tag = "not found"

\* search_games met a document it could not parse and returned its error text
C1_Witness ==
    /\ pc = "done"
    /\ op = "search_games"
    /\ response.kind = "unparseable"
    /\ result = [kind |-> "text", tag |-> "Unexpected error during search",
                 exc |-> "ParserError"]

\* the cards of a page that qualify for the recent-releases list: a title, a
\* known critic score, and the score at least min_score
RECURSIVE Qualifying(_, _)
Qualifying(cards, min_score) ==
    IF cards = <<>> THEN <<>>
    ELSE LET c == Head(cards)
             m == IF c.score.some THEN _parse_score(GetText(c.score.v)) ELSE None
         IN  (IF c.title.some /\ m.some /\ m.v >= min_score
              THEN << <<c.title.v, m.v>> >> ELSE <<>>)
             \o Qualifying(Tail(cards), min_score)

\* the <<title, score>> pairs a report prints, in order
Listed(r) ==
    IF "entries" \in DOMAIN r
    THEN [i \in DOMAIN r.entries |-> <<r.entries[i].title, r.entries[i].score>>]
    ELSE <<>>

\* C2: get_recent_releases lists exactly the records among the first 20 cards
\* whose critic score is known and at least min_score, in their original
\* order, and prints the first 10 of them (the claim as stated; the code
\* drops a record whose score is 0 even when min_score is 0).
C2_RecentListsQualifying ==
    (pc = "done" /\ op = "get_recent_releases" /\ response.kind = "ok") =>
        Listed(result) = Take(Qualifying(Take(response.page, 20), args.min_score), 10)

\* the critic scores of the records a report was built from
RecordScores(r) ==
    IF "records" \in DOMAIN r THEN {r.records[i].metascore : i \in DOMAIN r.records}
    ELSE IF "record" \in DOMAIN r THEN {r.record.metascore}
    ELSE {}

\* C3: in the output of search_games, get_game_details and
\* get_top_games_by_platform a score parsed as a number, 0 included, is shown
\* with that number; TBD or omission is used only for an unknown score (the
\* claim as stated; the code tests the score for truth and treats 0 as unknown).
C3_ZeroIsNotUnknown ==
    /\ (pc = "done" /\ op = "search_games" /\ result.tag = "Search Results") =>
          \A i \in DOMAIN result.records :
              result.entries[i].score =
                  IF result.records[i].metascore.some
                  THEN Shown(result.records[i].metascore.v) ELSE TBD
    /\ (pc = "done" /\ op = "get_game_details" /\ result.tag = "details") =>
          /\ result.metascore.tbd <=> ~result.record.metascore.some
          /\ ~result.metascore.tbd => result.metascore.n = result.record.metascore.v
          /\ result.user_score = result.record.user_score
    /\ (pc = "done" /\ op = "get_top_games_by_platform" /\ result.tag = "Top Games") =>
          Len(result.entries) =
              Cardinality({i \in DOMAIN result.records : result.records[i].metascore.some})

\* C5: every critic score held in a record built by an extraction is unknown
\* or an integer from 0 to 100, whatever the score element contains (the
\* claim as stated; the code keeps every digit of the text, so "93 / 100"
\* becomes 93100).
C5_CriticScoreInRange ==
    (pc = "done" /\ op \in FetchingOps) =>
        \A m \in RecordScores(result) : m = None \/ (m.some /\ m.v \in 0..100)

\* the time periods of the model that are four-digit year strings
FourDigitYears == {"2024", "2023", "2022", "2021"}

\* C7 as stated: "all-time" gives the year range 1958 to 2025, every
\* four-digit year string gives minimum and maximum year equal to it, and
\* every other value gives the first page with no year filter.
C7_AnyYearFiltered ==
    (pc = "done" /\ op = "get_top_games_by_platform") =>
        /\ args.url.kind = "browse" /\ args.url.page = 1
        /\ args.time_period = "all-time" =>
              args.url.releaseYearMin = Some("1958") /\ args.url.releaseYearMax = Some("2025")
        /\ args.time_period \in FourDigitYears =>
              /\ args.url.releaseYearMin = Some(args.time_period)
              /\ args.url.releaseYearMax = Some(args.time_period)
        /\ args.time_period \notin FourDigitYears \cup {"all-time"} =>
              args.url.releaseYearMin = None /\ args.url.releaseYearMax = None

\* C7 as amended: "all-time" gives the year range 1958 to 2025; "2024",
\* "2023" and "2022" give minimum and maximum year equal to that year; every
\* other value, other four-digit years included, gives the first page with
\* no year filter.
C7_ListedYearsFiltered ==
    (pc = "done" /\ op = "get_top_games_by_platform") =>
        /\ args.url.kind = "browse" /\ args.url.page = 1
        /\ args.time_period = "all-time" =>
              args.url.releaseYearMin = Some("1958") /\ args.url.releaseYearMax = Some("2025")
        /\ args.time_period \in {"2024", "2023", "2022"} =>
              /\ args.url.releaseYearMin = Some(args.time_period)
              /\ args.url.releaseYearMax = Some(args.time_period)
        /\ args.time_period \notin {"2024", "2023", "2022", "all-time"} =>
              args.url.releaseYearMin = None /\ args.url.releaseYearMax = None

\* the year 2021 was requested and the URL built carries no year filter
C7_Witness ==
    /\ pc = "done"
    /\ op = "get_top_games_by_platform"
    /\ args.time_period = "2021"
    /\ args.url.releaseYearMin = None
    /\ args.url.releaseYearMax = None

\* the platform text a result card carries for a platform code
PlatformLabel(platform) ==
    CASE platform = <<"p", "c">> -> "PC"
      [] platform = <<"s", "w", "i", "t", "c", "h">> -> "Switch"
      [] OTHER -> "Unknown"

\* C9: search_games called with a platform other than 'all' returns only
\* results for that platform (the claim as stated, after the docstring; the
\* code never reads the platform argument).
C9_SearchFiltersByPlatform ==
    (pc = "done" /\ op = "search_games" /\ args.platform # <<"a", "l", "l">>
        /\ "records" \in DOMAIN result) =>
        \A i \in DOMAIN result.records :
            result.records[i].platform = PlatformLabel(args.platform)

\* C10: the URL get_game_details fetches and prints depends only on the
\* title: any other platform argument gives the same fetched URL and the
\* same URL line.
C10_DetailUrlIgnoresPlatform ==
    (pc = "done" /\ op = "get_game_details") =>
        \A platform \in PlatformArgs :
            /\ args.url = DetailUrl(args.game_title, platform)
            /\ result.tag = "details" =>
                  result.url = get_game_details_result(args.game_title, platform, response).url

\* the details of a title were fetched for PS5 from the title's own URL
C10_Witness ==
    /\ pc = "done"
    /\ op = "get_game_details"
    /\ args.platform = <<"P", "S", "5">>
    /\ result.tag = "details"
    /\ result.url = [kind |-> "game", slug |-> <<"t", "h", "e", "-", "w", "i", "t", "c", "h", "e", "r", "-", "3", "-", "w", "i", "l", "d", "-", "h", "u", "n", "t">>]
    /\ args.url = result.url

\* the positions of a year's categories whose name is the text, letter case aside
NamedBy(year, category) ==
    {i \in DOMAIN GAME_AWARDS_DATA[year] :
        Lower(GAME_AWARDS_DATA[year][i].cat) = Lower(category)}

\* C11: for every year of the awards table and every category name of that
\* year, get_game_awards called with that name in any letter case returns
\* that category and its own winner, not another category whose name
\* overlaps; year 2025 with 'Best RPG' gives 'Clair Obscur: Expedition 33'.
C11_ExactNameGivesOwnWinner ==
    (pc = "done" /\ op = "get_game_awards" /\ args.year \in DOMAIN GAME_AWARDS_DATA) =>
        /\ \A i \in NamedBy(args.year, args.category) :
              /\ result.tag = "winner"
              /\ result.cat = GAME_AWARDS_DATA[args.year][i].cat
              /\ result.winner = GAME_AWARDS_DATA[args.year][i].winner
        /\ (args.year = 2025 /\ Lower(args.category) = <<"b", "e", "s", "t", " ", "r", "p", "g">>)
              => result.winner = "Clair Obscur: Expedition 33"

\* 'best action game', which shares words with 'Best Action/Adventure Game',
\* was looked up in lower case for 2025 and gave Hades II
C11_Witness ==
    /\ pc = "done"
    /\ op = "get_game_awards"
    /\ args.year = 2025
    /\ args.category = <<"b", "e", "s", "t", " ", "a", "c", "t", "i", "o", "n", " ", "g", "a", "m", "e">>
    /\ result.tag = "winner"
    /\ result.winner = "Hades II"

\* a category text overlaps no category name of the year
NoOverlap(year, category) ==
    \A i \in DOMAIN GAME_AWARDS_DATA[year] :
        /\ ~StrIn(Lower(category), Lower(GAME_AWARDS_DATA[year][i].cat))
        /\ ~StrIn(Lower(GAME_AWARDS_DATA[year][i].cat), Lower(category))

YearsNewestFirst == <<2025, 2024, 2023, 2022, 2021, 2020, 2019, 2018>>

\* C12 as stated: get_game_awards returns a text for every year and category;
\* a year outside the table gives the available years, and a known year with
\* a category text that overlaps no category name gives the year's category
\* names.
C12_NoMatchListsCategories ==
    (pc = "done" /\ op = "get_game_awards") =>
        /\ result.kind = "text"
        /\ args.year \notin DOMAIN GAME_AWARDS_DATA =>
              /\ result.tag = "Data not available"
              /\ result.available_years = YearsNewestFirst
        /\ (args.year \in DOMAIN GAME_AWARDS_DATA /\ NoOverlap(args.year, args.category)) =>
              /\ result.tag = "Category not found"
              /\ result.available_categories = CategoryNames(GAME_AWARDS_DATA[args.year])

\* C12 as amended: the same, for a category text other than 'all' in any
\* letter case; 'all' overlaps no category name and gives every winner of the
\* year.
C12_NoMatchListsCategoriesUnlessAll ==
    (pc = "done" /\ op = "get_game_awards") =>
        /\ result.kind = "text"
        /\ args.year \notin DOMAIN GAME_AWARDS_DATA =>
              /\ result.tag = "Data not available"
              /\ result.available_years = YearsNewestFirst
        /\ (args.year \in DOMAIN GAME_AWARDS_DATA /\ NoOverlap(args.year, args.category)) =>
              IF Lower(args.category) = <<"a", "l", "l">>
              THEN result.tag = "All Winners" /\ result.lines = GAME_AWARDS_DATA[args.year]
              ELSE /\ result.tag = "Category not found"
                   /\ result.available_categories = CategoryNames(GAME_AWARDS_DATA[args.year])

\* 'nonexistent-category' was looked up for 2025 and the 31 names came back
C12_Witness ==
    /\ pc = "done"
    /\ op = "get_game_awards"
    /\ args.year = 2025
    /\ args.category = <<"n", "o", "n", "e", "x", "i", "s", "t", "e", "n", "t", "-", "c", "a", "t", "e", "g", "o", "r", "y">>
    /\ result.tag = "Category not found"
    /\ Len(result.available_categories) = 31

\* C13: get_game_details maps a 404 response to the 'not found' text that
\* names the title and suggests search_games, any other non-2xx status to a
\* text carrying the status code, and a transport failure to the generic
\* error text; no other fetching operation produces the 404 guidance.
C13_DetailFailureTexts ==
    /\ (pc = "done" /\ op = "get_game_details") =>
          /\ (response.kind = "status" /\ response.code = 404) =>
                result = [kind |-> "text", tag |-> "not found",
                          game_title |-> args.game_title, suggest |-> "search_games"]
          /\ (response.kind = "status" /\ response.code # 404) =>
                result = [kind |-> "text", tag |-> "Error fetching game details: HTTP",
                          code |-> response.code]
          /\ response.kind \in {"transport", "timeout"} =>
                result.tag = "Error getting game details"
    /\ (pc = "done" /\ op \in FetchingOps /\ result.tag = "not found") =>
          /\ op = "get_game_details"
          /\ response = [kind |-> "status", code |-> 404]
    /\ (pc = "done" /\ op \in FetchingOps \ {"get_game_details"}
           /\ response.kind = "status") =>
          "suggest" \notin DOMAIN result

\* get_game_details met a 404 and answered with the guidance
C13_Witness ==
    /\ pc = "done"
    /\ op = "get_game_details"
    /\ response = [kind |-> "status", code |-> 404]
    /\ result.tag = "not found"
    /\ result.suggest = "search_games"

\* the positions of an event in the client's events
EventsAt(e) == {i \in DOMAIN client : client[i] = e}

\* C14: in every execution of a fetching operation exactly one GET is issued,
\* none again after a failure, and the client opened for the call is closed
\* before the operation returns, on the failing paths as well.
C14_OneGetClientClosed ==
    (pc = "done" /\ op \in FetchingOps) =>
        /\ Cardinality(EventsAt("get")) = 1
        /\ Cardinality(EventsAt("open")) = 1
        /\ Cardinality(EventsAt("close")) = 1
        /\ client[1] = "open"
        /\ client[Len(client)] = "close"

\* the status check of get_game_details failed and the client was closed
C14_Witness ==
    /\ pc = "done"
    /\ op = "get_game_details"
    /\ response.kind = "status"
    /\ client = <<"open", "get", "close">>

\* the four score bands: 90 and above, 75 to 89, 50 to 74, below 50
Band(score) == IF score >= 90 THEN 4 ELSE IF score >= 75 THEN 3 ELSE IF score >= 50 THEN 2 ELSE 1

\* a score of each band
BandScores == {40, 60, 80, 95}

\* the <<score, marker>> pairs a report prints
Markers(r) ==
    IF r.kind = "text" /\ r.tag = "details"
    THEN IF r.metascore.tbd THEN {} ELSE {<<r.metascore.n, r.metascore.emoji>>}
    ELSE IF r.kind = "text" /\ r.tag \in {"Top Games", "Recent Releases"}
    THEN {<<r.entries[i].score, r.entries[i].emoji>> : i \in DOMAIN r.entries}
    ELSE {}

\* the marker the formatter of an operation gives a score
MarkerOf(o, score) ==
    CASE o = "get_game_details"          -> DetailEmoji(score)
      [] o = "get_top_games_by_platform" -> TopEmoji(score)
      [] o = "get_recent_releases"       -> RecentEmoji(score)

\* C15: the tier marker of a critic score follows the four score bands in
\* every formatter: a score gets the same marker from get_game_details,
\* get_top_games_by_platform and get_recent_releases, and scores of different
\* bands get different markers (the claim as stated; the three formatters use
\* three different sets of thresholds, none of them the four bands).
C15_MarkersFollowBands ==
    (pc = "done" /\ op \in {"get_game_details", "get_top_games_by_platform",
                            "get_recent_releases"}) =>
        \A sm \in Markers(result) :
            /\ sm[2] = DetailEmoji(sm[1])
            /\ sm[2] = TopEmoji(sm[1])
            /\ sm[2] = RecentEmoji(sm[1])
            /\ \A other \in BandScores :
                  Band(other) # Band(sm[1]) => MarkerOf(op, other) # sm[2]

\* C16: no operation changes state that outlives the call: after any
\* sequence of calls of the six operations, with any fetch outcomes, the
\* awards table, the platform map and the header set have their initial
\* values.
C16_GlobalsNeverChange ==
    /\ headers = HEADERS
    /\ platform_map = PLATFORM_MAP
    /\ awards_data = GAME_AWARDS_DATA

\* a platform outside the map was looked up, the call returned, and the map
\* is the one the module started with
C16_Witness ==
    /\ pc = "done"
    /\ op = "get_top_games_by_platform"
    /\ args.platform = <<"d", "r", "e", "a", "m", "c", "a", "s", "t">>
    /\ args.url.platform = <<"d", "r", "e", "a", "m", "c", "a", "s", "t">>
    /\ <<"d", "r", "e", "a", "m", "c", "a", "s", "t">> \notin DOMAIN platform_map
    /\ platform_map = PLATFORM_MAP

\* the path segment of each known platform code
Canonical(code) ==
    CASE code = <<"p", "c">> -> <<"p", "c">>
      [] code = <<"p", "s", "5">> -> <<"p", "l", "a", "y", "s", "t", "a", "t", "i", "o", "n", "-", "5">>
      [] code = <<"p", "s", "4">> -> <<"p", "l", "a", "y", "s", "t", "a", "t", "i", "o", "n", "-", "4">>
      [] code = <<"x", "b", "o", "x", "-", "s", "e", "r", "i", "e", "s", "-", "x">> ->
             <<"x", "b", "o", "x", "-", "s", "e", "r", "i", "e", "s", "-", "x">>
      [] code = <<"x", "b", "o", "x", "-", "o", "n", "e">> -> <<"x", "b", "o", "x", "-", "o", "n", "e">>
      [] code = <<"s", "w", "i", "t", "c", "h">> -> <<"s", "w", "i", "t", "c", "h">>

KnownCodes ==
    { <<"p", "c">>, <<"p", "s", "5">>, <<"p", "s", "4">>,
      <<"x", "b", "o", "x", "-", "s", "e", "r", "i", "e", "s", "-", "x">>,
      <<"x", "b", "o", "x", "-", "o", "n", "e">>, <<"s", "w", "i", "t", "c", "h">> }

\* C17: the platform mapping is a case-insensitive lookup: a known code in
\* any letter case gives its canonical path segment ('PS5' gives
\* 'playstation-5'), and any other code gives the lower-cased input
\* ('dreamcast' gives 'dreamcast').
C17_PlatformLookup ==
    (pc = "done" /\ op = "PlatformSlug") =>
        IF Lower(args.platform) \in KnownCodes
        THEN result = Canonical(Lower(args.platform))
        ELSE result = Lower(args.platform)

\* 'Ps5' was mapped to 'playstation-5'
C17_Witness ==
    /\ pc = "done"
    /\ op = "PlatformSlug"
    /\ args.platform = <<"P", "s", "5">>
    /\ result = <<"p", "l", "a", "y", "s", "t", "a", "t", "i", "o", "n", "-", "5">>

HasTitle(card) == card.title.some

\* C18: search_games builds its list from the first 10 cards only: a card
\* without a title is skipped, a card with a title is kept in document order,
\* with score unknown when its score element is missing and platform
\* 'Unknown' when its platform element is missing; the entries are numbered
\* 1 to k without a gap, k at most 10, and 'No games found' is returned
\* exactly when no card among the first 10 has a title.
C18_SearchFirstTenTitled ==
    (pc = "done" /\ op = "search_games" /\ response.kind = "ok") =>
        LET titled == SelectSeq(Take(response.page, 10), HasTitle)
        IN  /\ Len(result.records) = Len(titled)
            /\ \A i \in DOMAIN titled :
                  /\ result.records[i].title = titled[i].title.v
                  /\ ~titled[i].score.some => result.records[i].metascore = None
                  /\ result.records[i].platform =
                        IF titled[i].platform.some THEN titled[i].platform.v ELSE "Unknown"
            /\ result.tag = "No games found" <=> titled = <<>>
            /\ titled # <<>> =>
                  /\ result.tag = "Search Results"
                  /\ Len(result.entries) = Len(titled)
                  /\ Len(result.entries) <= 10
                  /\ \A i \in DOMAIN result.entries :
                        /\ result.entries[i].n = i
                        /\ result.entries[i].title = titled[i].title.v
                        /\ result.entries[i].platform = result.records[i].platform

\* a page of eleven cards, the first ten without a score element and the
\* eleventh with a title, gave ten numbered entries
C18_Witness ==
    /\ pc = "done"
    /\ op = "search_games"
    /\ response.kind = "ok"
    /\ Len(response.page) = 11
    /\ response.page[1].title.some /\ ~response.page[1].score.some
    /\ response.page[11].title.some
    /\ Len(result.entries) = 10
    /\ result.entries[10].n = 10
    /\ result.records[1].platform = "Unknown"

\* C19: detail extraction degrades per field: whatever subset of title,
\* critic score, user score, summary, release date and genres is missing
\* from the page, get_game_details returns the formatted record, with the
\* caller's title, 'TBD', no user-score line, 'No summary available',
\* 'Unknown' and no genre line for the missing ones, and at most 5 genres.
C19_DetailDefaults ==
    (pc = "done" /\ op = "get_game_details" /\ response.kind = "ok") =>
        LET page == response.page
        IN  /\ result.kind = "text" /\ result.tag = "details"
            /\ result.title = IF page.title.some THEN page.title.v ELSE args.game_title
            /\ ~page.critic.some => result.metascore.tbd
            /\ ~page.user.some => result.user_score = None
            /\ result.summary.text =
                  IF page.summary.some THEN page.summary.v.text ELSE "No summary available"
            /\ result.release = IF page.release.some THEN page.release.v ELSE "Unknown"
            /\ page.genres = <<>> => result.genres = None
            /\ page.genres # <<>> =>
                  /\ result.genres.some
                  /\ Len(result.genres.v) <= 5
                  /\ result.genres.v = Take(page.genres, 5)

\* a page with none of the six fields gave the record of defaults
C19_Witness ==
    /\ pc = "done"
    /\ op = "get_game_details"
    /\ response.kind = "ok"
    /\ response.page = [title |-> None, critic |-> None, user |-> None,
                        summary |-> None, release |-> None, genres |-> <<>>]
    /\ result.title = args.game_title
    /\ result.metascore.tbd
    /\ result.release = "Unknown"

\* a page with six genre links gave a genre line of five
C19_WitnessGenres ==
    /\ pc = "done"
    /\ op = "get_game_details"
    /\ response.kind = "ok"
    /\ Len(response.page.genres) = 6
    /\ Len(result.genres.v) = 5

\* the ranking the claim describes for the extracted records: a record is
\* printed when its score is known, with the marker of its position
RECURSIVE RankingOfKnown(_, _)
RankingOfKnown(records, i) ==
    IF i > Len(records) THEN <<>>
    ELSE (IF records[i].metascore.some
          THEN << <<IF i = 1 THEN "gold" ELSE IF i = 2 THEN "silver"
                    ELSE IF i = 3 THEN "bronze" ELSE i,
                    records[i].title, records[i].metascore.v>> >>
          ELSE <<>>)
         \o RankingOfKnown(records, i + 1)

\* C20: get_top_games_by_platform prints a record among the first 15 cards
\* if and only if it has a title and a known critic score, with the rank
\* marker of its position among the extracted records, those without a score
\* counted: gold, silver, bronze for 1, 2, 3 and the number otherwise (the
\* claim as stated; the code tests the score for truth, so a record whose
\* known score is 0 is not printed).
C20_TopPrintsKnownScores ==
    (pc = "done" /\ op = "get_top_games_by_platform" /\ response.kind = "ok"
        /\ result.tag = "Top Games") =>
        /\ Len(result.records) = Len(SelectSeq(Take(response.page, 15), HasTitle))
        /\ [i \in DOMAIN result.entries |->
               <<result.entries[i].medal, result.entries[i].title, result.entries[i].score>>]
           = RankingOfKnown(result.records, 1)

\* a card whose score element spells a critic score: its text holds a digit
KnownScore(card) == card.score.some /\ StripNonDigits(GetText(card.score.v)) # <<>>

Overlapping(year, category) ==
    {i \in DOMAIN GAME_AWARDS_DATA[year] :
        \/ StrIn(Lower(category), Lower(GAME_AWARDS_DATA[year][i].cat))
        \/ StrIn(Lower(GAME_AWARDS_DATA[year][i].cat), Lower(category))}

\* C22: when the category text of get_game_awards matches category names of
\* the year, several of them included, the winner returned is that of the
\* first matching category in the table's order; an empty category text
\* matches every name and returns the year's first category, Game of the
\* Year, not the list of categories.
C22_FirstMatchWins ==
    (pc = "done" /\ op = "get_game_awards" /\ args.year \in DOMAIN GAME_AWARDS_DATA) =>
        LET awards == GAME_AWARDS_DATA[args.year]
            hits   == Overlapping(args.year, args.category)
        IN  /\ hits # {} =>
                  /\ result.tag = "winner"
                  /\ \E i \in hits :
                        /\ \A k \in hits : i <= k
                        /\ result.cat = awards[i].cat
                        /\ result.winner = awards[i].winner
            /\ args.category = <<>> =>
                  /\ hits = DOMAIN awards
                  /\ result.tag = "winner"
                  /\ result.cat = <<"G", "a", "m", "e", " ", "o", "f", " ", "t", "h", "e", " ", "Y", "e", "a", "r">>
                  /\ result.winner = awards[1].winner

\* 'action' was looked up for 2025: it overlaps 'Best Action Game' and
\* 'Best Action/Adventure Game', and the first of the two, Hades II, came back
C22_Witness ==
    /\ pc = "done"
    /\ op = "get_game_awards"
    /\ args.year = 2025
    /\ args.category = <<"a", "c", "t", "i", "o", "n">>
    /\ Cardinality(Overlapping(2025, args.category)) >= 2
    /\ result.tag = "winner"
    /\ result.winner = "Hades II"

\* the empty text was looked up for 2025 and gave Game of the Year
C22_WitnessEmpty ==
    /\ pc = "done"
    /\ op = "get_game_awards"
    /\ args.year = 2025
    /\ args.category = <<>>
    /\ result.tag = "winner"
    /\ result.winner = "Clair Obscur: Expedition 33"

====
